---------------------------- MODULE Spec2Model ----------------------------
(***************************************************************************)
(* Build-pod orchestrator of flotio-dev/core-api (pkg/kubernetes).         *)
(*                                                                         *)
(* The cluster holds, per kind, the objects of the namespace by name.       *)
(* CreateBuildPod and DeleteBuildResources are modelled step by step:      *)
(* every call of the cluster API is a suspension point and an action.      *)
(* Spec is the orchestrator driven by one sequential caller.  The data     *)
(* source (db.DB) is read-only for this package.                           *)
(***************************************************************************)
EXTENDS Integers, Sequences, FiniteSets, TLC

VARIABLES
    db,        \* the data source: db.DB (nil or not) and the rows it holds
    cluster,   \* the objects of the namespace
    procs,     \* one record per invocation slot: operation, position, locals, history
    ncalls,    \* number of invocations started so far
    nfaults,   \* number of injected cluster-API / data-source failures so far
    last,      \* summary of the most recently returned invocation
    nameIn,    \* SpecNames: the pair of BuildIDs whose names are computed
    nameOut    \* SpecNames: the names computed at each place of the code

vars == <<db, cluster, procs, ncalls, nfaults, last, nameIn, nameOut>>

----------------------------------------------------------------------------
(* Bounds of the model *)

MaxCalls == 3
MaxFaults == 1
MaxBuildID == 2
MaxNameID == 30
MaxPathLen == 3
MaxContentLen == 2

\* the invocation slots, and those of them the sequential caller of Spec uses
Procs == {1, 2}
Callers == {1}
BuildIDs == 1..MaxBuildID
NameIDs == 0..MaxNameID

----------------------------------------------------------------------------
(* Text.  A Go string is modelled as a TLC string where it is only ever     *)
(* concatenated and compared (resource names, variable names), as a        *)
(* sequence of one-character strings where the code walks over its runes   *)
(* (keys and paths of file entries), and as a sequence of byte values      *)
(* where the code decodes it (base64 payloads, file contents).             *)

Digit(d) ==
    CASE d = 0 -> "0" [] d = 1 -> "1" [] d = 2 -> "2" [] d = 3 -> "3"
      [] d = 4 -> "4" [] d = 5 -> "5" [] d = 6 -> "6" [] d = 7 -> "7"
      [] d = 8 -> "8" [] d = 9 -> "9"

\* fmt.Sprintf("%d", n) and strconv.Itoa(int(n)) for an unsigned n
RECURSIVE Itoa(_)
Itoa(n) == IF n < 10 THEN Digit(n) ELSE Itoa(n \div 10) \o Digit(n % 10)

----------------------------------------------------------------------------
(* Resource names, one operator per place of the code that computes one *)

PodNameCreate(buildID) == "build-" \o Itoa(buildID)
PodNameLogs(buildID) == "build-" \o Itoa(buildID)
PodNameStream(buildID) == "build-" \o Itoa(buildID)
\* a status site that disagrees with the Create site
PodNameStatusOther(buildID) == "build-pod-" \o Itoa(buildID)
PodNameStatus(buildID) == "build-" \o Itoa(buildID)
PodNameArtifacts(buildID) == "build-" \o Itoa(buildID)
PodNameDelete(buildID) == "build-" \o Itoa(buildID)

ConfigMapNameCreate(buildID) == "build-" \o Itoa(buildID) \o "-env-files"
\* a Delete site that disagrees with the Create site
ConfigMapNameDeleteOther(buildID) == "build-" \o Itoa(buildID) \o "-envfiles"
ConfigMapNameDelete(buildID) == "build-" \o Itoa(buildID) \o "-env-files"

SecretNameCreate(buildID) == "build-" \o Itoa(buildID) \o "-keystore"
SecretNameDelete(buildID) == "build-" \o Itoa(buildID) \o "-keystore"

\* PVCNameDelete that names the claim of build 1 whatever the BuildID
PVCNameDeleteFirst(buildID) == "build-1-artifacts"

PVCNameCreate(buildID) == "build-" \o Itoa(buildID) \o "-artifacts"
PVCNameDelete(buildID) == "build-" \o Itoa(buildID) \o "-artifacts"

----------------------------------------------------------------------------
(* encoding/base64: StdEncoding.DecodeString over byte values *)

\* B64Index of the URL alphabet, '-' and '_' in the place of '+' and '/'
B64IndexURL(c) ==
    IF c >= 65 /\ c <= 90 THEN c - 65
    ELSE IF c >= 97 /\ c <= 122 THEN c - 71
    ELSE IF c >= 48 /\ c <= 57 THEN c + 4
    ELSE IF c = 45 THEN 62
    ELSE IF c = 95 THEN 63
    ELSE -1

\* position of a byte in the standard alphabet, -1 when it is not in it
B64Index(c) ==
    IF c >= 65 /\ c <= 90 THEN c - 65
    ELSE IF c >= 97 /\ c <= 122 THEN c - 71
    ELSE IF c >= 48 /\ c <= 57 THEN c + 4
    ELSE IF c = 43 THEN 62
    ELSE IF c = 47 THEN 63
    ELSE -1

IsB64(c) == B64Index(c) >= 0

\* the padding character '='
IsPad(c) == c = 61

\* the decoder skips '\r' and '\n'
StripNewlines(s) == SelectSeq(s, LAMBDA c : c # 10 /\ c # 13)

\* one quantum of four characters, the last n6 - 1 .. 4 being padding
B64Quantum(q, n6) ==
    LET v == B64Index(q[1]) * 262144 + B64Index(q[2]) * 4096
             + (IF n6 >= 3 THEN B64Index(q[3]) * 64 ELSE 0)
             + (IF n6 >= 4 THEN B64Index(q[4]) ELSE 0)
        b1 == v \div 65536
        b2 == (v \div 256) % 256
        b3 == v % 256
    IN  IF n6 = 4 THEN <<b1, b2, b3>>
        ELSE IF n6 = 3 THEN <<b1, b2>>
        ELSE <<b1>>

RECURSIVE B64DecodeQuanta(_)
B64DecodeQuanta(s) ==
    IF Len(s) = 0 THEN [ok |-> TRUE, out |-> <<>>]
    ELSE IF Len(s) < 4 THEN [ok |-> FALSE, out |-> <<>>]
    ELSE LET q == SubSeq(s, 1, 4)
             rest == SubSeq(s, 5, Len(s))
         IN  IF IsB64(q[1]) /\ IsB64(q[2]) /\ IsB64(q[3]) /\ IsB64(q[4])
             THEN LET r == B64DecodeQuanta(rest)
                  IN  [ok |-> r.ok,
                       out |-> IF r.ok THEN B64Quantum(q, 4) \o r.out ELSE <<>>]
             ELSE IF IsB64(q[1]) /\ IsB64(q[2]) /\ IsB64(q[3]) /\ IsPad(q[4])
                     /\ rest = <<>>
             THEN [ok |-> TRUE, out |-> B64Quantum(q, 3)]
             ELSE IF IsB64(q[1]) /\ IsB64(q[2]) /\ IsPad(q[3]) /\ IsPad(q[4])
                     /\ rest = <<>>
             THEN [ok |-> TRUE, out |-> B64Quantum(q, 2)]
             ELSE [ok |-> FALSE, out |-> <<>>]

DecodeString(s) == B64DecodeQuanta(StripNewlines(s))

----------------------------------------------------------------------------
(* resources.go helpers *)

\* replaceAll that replaces the first occurrence only
RECURSIVE replaceAllFirstOnly(_, _, _)
replaceAllFirstOnly(s, old, new) ==
    IF s = <<>> THEN <<>>
    ELSE IF Head(s) = old THEN new \o Tail(s)
    ELSE <<Head(s)>> \o replaceAllFirstOnly(Tail(s), old, new)

\* replaceAll: rune by rune, a rune equal to old is replaced by the runes of new
RECURSIVE replaceAll(_, _, _)
replaceAll(s, old, new) ==
    IF s = <<>> THEN <<>>
    ELSE (IF Head(s) = old THEN new ELSE <<Head(s)>>) \o replaceAll(Tail(s), old, new)

\* the data key of a file entry: Key, or Key "::" encoded Path
FileName(env) ==
    IF env.Path # <<>>
    THEN env.Key \o <<":", ":">> \o replaceAll(env.Path, "/", <<"_", "_">>)
    ELSE env.Key

----------------------------------------------------------------------------
(* pod.go helpers *)

\* getBuildMode that takes "debug" for an empty mode
getBuildModeDebug(mode) == IF mode = "" THEN "debug" ELSE mode

getBuildMode(mode) == IF mode = "" THEN "release" ELSE mode

\* getBuildTarget without the case of "ios"
getBuildTargetWithoutIos(platform, target) ==
    IF target # "" THEN target
    ELSE CASE platform = "android" -> "apk"
           [] platform = "web" -> "web"
           [] OTHER -> "apk"

getBuildTarget(platform, target) ==
    IF target # "" THEN target
    ELSE CASE platform = "android" -> "apk"
           [] platform = "ios" -> "ios"
           [] platform = "web" -> "web"
           [] OTHER -> "apk"

\* getFlutterChannel that leaves "latest" as it is
getFlutterChannelKeepingLatest(channel) ==
    IF channel = "" THEN "stable" ELSE channel

getFlutterChannel(channel) ==
    IF channel = "" \/ channel = "latest" THEN "stable" ELSE channel

\* v1.EnvVar: a literal Value, or a reference to a key of a Secret
EnvVar(name, value) ==
    [Name |-> name, Value |-> value, SecretName |-> "", SecretKey |-> ""]

EnvVarFromSecret(name, secretName, key) ==
    [Name |-> name, Value |-> "", SecretName |-> secretName, SecretKey |-> key]

\* buildEnvironmentVariables that appends the Git variables whether or not
\* their fields are empty
buildEnvironmentVariablesWithAllGit(config) ==
    <<EnvVar("GIT_REPO", config.Project.GitRepo),
      EnvVar("BUILD_FOLDER", config.Project.BuildFolder),
      EnvVar("PLATFORM", config.Platform),
      EnvVar("BUILD_ID", Itoa(config.BuildID)),
      EnvVar("BUILD_MODE", getBuildMode(config.BuildMode)),
      EnvVar("BUILD_TARGET", getBuildTarget(config.Platform, config.BuildTarget)),
      EnvVar("FLUTTER_CHANNEL", getFlutterChannel(config.FlutterChannel)),
      EnvVar("OUTPUT_DIR", "/outputs"),
      EnvVar("ENV_FILES_DIR", "/env-files"),
      EnvVar("GIT_BRANCH", config.GitBranch),
      EnvVar("GIT_USERNAME", config.GitUsername),
      EnvVar("GIT_PASSWORD", config.GitPassword)>>

buildEnvironmentVariables(config) ==
    <<EnvVar("GIT_REPO", config.Project.GitRepo),
      EnvVar("BUILD_FOLDER", config.Project.BuildFolder),
      EnvVar("PLATFORM", config.Platform),
      EnvVar("BUILD_ID", Itoa(config.BuildID)),
      EnvVar("BUILD_MODE", getBuildMode(config.BuildMode)),
      EnvVar("BUILD_TARGET", getBuildTarget(config.Platform, config.BuildTarget)),
      EnvVar("FLUTTER_CHANNEL", getFlutterChannel(config.FlutterChannel)),
      EnvVar("OUTPUT_DIR", "/outputs"),
      EnvVar("ENV_FILES_DIR", "/env-files")>>
    \o (IF config.GitBranch # "" THEN <<EnvVar("GIT_BRANCH", config.GitBranch)>> ELSE <<>>)
    \o (IF config.GitUsername # "" THEN <<EnvVar("GIT_USERNAME", config.GitUsername)>> ELSE <<>>)
    \o (IF config.GitPassword # "" THEN <<EnvVar("GIT_PASSWORD", config.GitPassword)>> ELSE <<>>)

----------------------------------------------------------------------------
(* The data source (pkg/db): the rows of db.Env and db.Keystore.  A row of  *)
(* Type "env" carries a variable name and value (strings); a row of Type   *)
(* "file" carries a key and a path (runes) and a content (bytes).          *)

ProjectOfBuilds == [ID |-> 1, GitRepo |-> "https://git/app.git", BuildFolder |-> ""]

VarRow == [ProjectID |-> 1, Type |-> "env", Key |-> "API_URL", Value |-> "https://api",
           Path |-> <<>>, IsBase64 |-> FALSE]
\* Value "e30=" is base64 of "{}"
FileRowB64 == [ProjectID |-> 1, Type |-> "file", Key |-> <<"g", "s">>,
               Value |-> <<101, 51, 48, 61>>, Path |-> <<"a", "/", "g">>, IsBase64 |-> TRUE]
FileRowRaw == [ProjectID |-> 1, Type |-> "file", Key |-> <<"e">>,
               Value |-> <<65, 61, 49>>, Path |-> <<>>, IsBase64 |-> FALSE]
\* Value "e30" is not valid base64 (a truncated quantum)
FileRowBad == [ProjectID |-> 1, Type |-> "file", Key |-> <<"b">>,
               Value |-> <<101, 51, 48>>, Path |-> <<"b">>, IsBase64 |-> TRUE]
FileRowOther == [ProjectID |-> 2, Type |-> "file", Key |-> <<"o">>,
                 Value |-> <<66>>, Path |-> <<>>, IsBase64 |-> FALSE]

Keystore(project, blob, active) ==
    [ProjectID |-> project, KeystoreFile |-> blob, StorePassword |-> "sp",
     KeyAlias |-> "ka", KeyPassword |-> "kp", IsActive |-> active]

\* "AQI=" is base64 of the bytes 1, 2; "AQI" is a truncated quantum
BlobValid == <<65, 81, 73, 61>>
BlobBad == <<65, 81, 73>>

FilesNone == <<>>
FilesGood == <<FileRowB64, FileRowRaw>>
FilesBad == <<FileRowBad>>

KeystoresInactive == <<Keystore(1, BlobValid, FALSE)>>
KeystoresValid == <<Keystore(1, BlobBad, FALSE), Keystore(1, BlobValid, TRUE)>>
KeystoresBad == <<Keystore(1, BlobBad, TRUE)>>

\* db.DB == nil: no data source
NoDB == [init |-> FALSE, envs |-> <<>>, keystores |-> <<>>]

\* a data source with the given file rows and keystores of the project of the
\* builds, beside a variable row of it and the rows of another project
DataSource(files, ks) ==
    [init |-> TRUE,
     envs |-> <<FileRowOther, VarRow>> \o files,
     keystores |-> <<Keystore(2, BlobValid, TRUE)>> \o ks]

DataSources ==
    { NoDB,
      DataSource(FilesNone, KeystoresInactive),
      DataSource(FilesNone, KeystoresValid),
      DataSource(FilesGood, KeystoresInactive),
      DataSource(FilesGood, KeystoresValid),
      DataSource(FilesGood, KeystoresBad),
      DataSource(FilesBad, KeystoresValid) }

\* db.DB.Where("project_id = ? AND type = ?", projectID, type).Find(&envs)
FindEnvs(projectID, type) ==
    SelectSeq(db.envs, LAMBDA e : e.ProjectID = projectID /\ e.Type = type)

\* db.DB.Where("project_id = ? AND is_active = ?", projectID, true).First(&keystore):
\* the rows that match, the first of which First returns; none is ErrRecordNotFound
ActiveKeystores(projectID) ==
    SelectSeq(db.keystores, LAMBDA k : k.ProjectID = projectID /\ k.IsActive)

----------------------------------------------------------------------------
(* kubernetes.BuildConfig *)

Platforms == {"android", "web"}

Config(buildID, platform) ==
    [Project |-> ProjectOfBuilds, Platform |-> platform, BuildID |-> buildID,
     BuildMode |-> "", BuildTarget |-> "", FlutterChannel |-> "",
     GitBranch |-> "main", GitUsername |-> "", GitPassword |-> ""]

----------------------------------------------------------------------------
(* The cluster API of one namespace: per kind, a map from name to object.  *)
(* A create of an existing name is a conflict, a delete of a missing name  *)
(* is not-found, and any call can fail for another reason ("fail":         *)
(* connectivity, quota), which the model injects at most MaxFaults times.  *)

Kinds == {"Pod", "ConfigMap", "Secret", "PersistentVolumeClaim"}

EmptyMap == [n \in {} |-> n]

EmptyCluster == [k \in Kinds |-> EmptyMap]

Exists(c, kind, name) == name \in DOMAIN c[kind]

Put(c, kind, name, obj) ==
    [c EXCEPT ![kind] = [n \in DOMAIN c[kind] \cup {name} |->
                            IF n = name THEN obj ELSE c[kind][n]]]

Remove(c, kind, name) ==
    [c EXCEPT ![kind] = [n \in DOMAIN c[kind] \ {name} |-> c[kind][n]]]

FaultLeft == nfaults < MaxFaults

\* the outcomes the API can give to a Create / a Delete of (kind, name)
CreateOutcomes(kind, name) ==
    (IF Exists(cluster, kind, name) THEN {"conflict"} ELSE {"ok"})
    \cup (IF FaultLeft THEN {"fail"} ELSE {})

DeleteOutcomes(kind, name) ==
    (IF Exists(cluster, kind, name) THEN {"ok"} ELSE {"notfound"})
    \cup (IF FaultLeft THEN {"fail"} ELSE {})

\* the outcomes of a query of the data source
QueryOutcomes == {"ok"} \cup (IF FaultLeft THEN {"err"} ELSE {})

Query(type, q) == [type |-> type, result |-> q]

Call(verb, kind, name, r) == [verb |-> verb, kind |-> kind, name |-> name, result |-> r]

FaultsOf(q, r) == (IF q = "err" THEN 1 ELSE 0) + (IF r = "fail" THEN 1 ELSE 0)

----------------------------------------------------------------------------
(* resources.go: the three provisioning operations.  Each takes the        *)
(* outcome q of its query and the outcome r of its Create, and gives the   *)
(* returned name and error, the cluster afterwards and the calls issued.   *)

\* BuildLabels without the number of the build
BuildLabelsUnnumbered(buildID) == [l \in {"app", "build-id"} |->
                                     IF l = "app" THEN "flotio-build" ELSE "build"]

BuildLabels(buildID) == [l \in {"app", "build-id"} |->
                            IF l = "app" THEN "flotio-build" ELSE Itoa(buildID)]

Returned(name, err, c, calls, queried) ==
    [name |-> name, err |-> err, cluster |-> c, calls |-> calls, queried |-> queried]

\* ConfigMapData that leaves out an entry whose payload does not decode
RECURSIVE ConfigMapDataSkippingUndecodable(_)
ConfigMapDataSkippingUndecodable(envs) ==
    IF envs = <<>> THEN [ok |-> TRUE, data |-> EmptyMap]
    ELSE LET env == envs[Len(envs)]
             before == ConfigMapDataSkippingUndecodable(SubSeq(envs, 1, Len(envs) - 1))
             decoded == DecodeString(env.Value)
             content == IF env.IsBase64 THEN decoded.out ELSE env.Value
             fileName == FileName(env)
         IN  IF env.IsBase64 /\ ~decoded.ok
             THEN before
             ELSE [ok |-> TRUE,
                   data |-> [k \in DOMAIN before.data \cup {fileName} |->
                                IF k = fileName THEN content ELSE before.data[k]]]

\* the data of the ConfigMap: one item per file entry, a later entry overwriting
\* an earlier one with the same data key; ok is FALSE when a payload does not decode
RECURSIVE ConfigMapData(_)
ConfigMapData(envs) ==
    IF envs = <<>> THEN [ok |-> TRUE, data |-> EmptyMap]
    ELSE LET env == envs[Len(envs)]
             before == ConfigMapData(SubSeq(envs, 1, Len(envs) - 1))
             decoded == DecodeString(env.Value)
             content == IF env.IsBase64 THEN decoded.out ELSE env.Value
             fileName == FileName(env)
         IN  IF ~before.ok \/ (env.IsBase64 /\ ~decoded.ok)
             THEN [ok |-> FALSE, data |-> EmptyMap]
             ELSE [ok |-> TRUE,
                   data |-> [k \in DOMAIN before.data \cup {fileName} |->
                                IF k = fileName THEN content ELSE before.data[k]]]

\* CreateConfigMapForEnvFiles that creates the ConfigMap for no file entry too
CreateConfigMapForEnvFilesOfNone(c, buildID, projectID, q, r) ==
    LET envs == FindEnvs(projectID, "file")
        configMapName == ConfigMapNameCreate(buildID)
        built == ConfigMapData(envs)
        configMap == [Name |-> configMapName, Labels |-> BuildLabels(buildID),
                      Data |-> built.data]
        call == Call("create", "ConfigMap", configMapName, r)
    IN  IF ~db.init THEN Returned("", "nil", c, <<>>, <<>>)
        ELSE IF q = "err"
        THEN Returned("", "failed to fetch environment files", c, <<>>, <<Query("file", q)>>)
        ELSE IF ~built.ok
        THEN Returned("", "failed to decode base64 content", c, <<>>, <<Query("file", q)>>)
        ELSE IF r # "ok"
        THEN Returned("", "failed to create ConfigMap", c, <<call>>, <<Query("file", q)>>)
        ELSE Returned(configMapName, "nil", Put(c, "ConfigMap", configMapName, configMap),
                      <<call>>, <<Query("file", q)>>)

CreateConfigMapForEnvFiles(c, buildID, projectID, q, r) ==
    LET envs == FindEnvs(projectID, "file")
        configMapName == ConfigMapNameCreate(buildID)
        built == ConfigMapData(envs)
        configMap == [Name |-> configMapName, Labels |-> BuildLabels(buildID),
                      Data |-> built.data]
        call == Call("create", "ConfigMap", configMapName, r)
    IN  IF ~db.init THEN Returned("", "nil", c, <<>>, <<>>)
        ELSE IF q = "err"
        THEN Returned("", "failed to fetch environment files", c, <<>>, <<Query("file", q)>>)
        ELSE IF Len(envs) = 0 THEN Returned("", "nil", c, <<>>, <<Query("file", q)>>)
        ELSE IF ~built.ok
        THEN Returned("", "failed to decode base64 content", c, <<>>, <<Query("file", q)>>)
        ELSE IF r # "ok"
        THEN Returned("", "failed to create ConfigMap", c, <<call>>, <<Query("file", q)>>)
        ELSE Returned(configMapName, "nil", Put(c, "ConfigMap", configMapName, configMap),
                      <<call>>, <<Query("file", q)>>)

\* CreateSecretForKeystore that returns the error of a failed or empty lookup
CreateSecretForKeystoreStrict(c, buildID, projectID, q, r) ==
    LET found == ActiveKeystores(projectID)
        keystore == found[1]
        secretName == SecretNameCreate(buildID)
        keystoreData == DecodeString(keystore.KeystoreFile)
        secret == [Name |-> secretName, Labels |-> BuildLabels(buildID),
                   Type |-> "Opaque",
                   Data |-> [k \in {"keystore.jks"} |-> keystoreData.out],
                   StringData |-> [k \in {"store-password", "key-alias", "key-password"} |->
                                     CASE k = "store-password" -> keystore.StorePassword
                                       [] k = "key-alias" -> keystore.KeyAlias
                                       [] k = "key-password" -> keystore.KeyPassword]]
        call == Call("create", "Secret", secretName, r)
    IN  IF ~db.init THEN Returned("", "nil", c, <<>>, <<>>)
        ELSE IF q = "err" \/ Len(found) = 0
        THEN Returned("", "failed to fetch keystore", c, <<>>, <<Query("keystore", q)>>)
        ELSE IF ~keystoreData.ok
        THEN Returned("", "failed to decode keystore file", c, <<>>, <<Query("keystore", q)>>)
        ELSE IF r # "ok"
        THEN Returned("", "failed to create Secret", c, <<call>>, <<Query("keystore", q)>>)
        ELSE Returned(secretName, "nil", Put(c, "Secret", secretName, secret),
                      <<call>>, <<Query("keystore", q)>>)

CreateSecretForKeystore(c, buildID, projectID, q, r) ==
    LET found == ActiveKeystores(projectID)
        keystore == found[1]
        secretName == SecretNameCreate(buildID)
        keystoreData == DecodeString(keystore.KeystoreFile)
        secret == [Name |-> secretName, Labels |-> BuildLabels(buildID),
                   Type |-> "Opaque",
                   Data |-> [k \in {"keystore.jks"} |-> keystoreData.out],
                   StringData |-> [k \in {"store-password", "key-alias", "key-password"} |->
                                     CASE k = "store-password" -> keystore.StorePassword
                                       [] k = "key-alias" -> keystore.KeyAlias
                                       [] k = "key-password" -> keystore.KeyPassword]]
        call == Call("create", "Secret", secretName, r)
    IN  IF ~db.init THEN Returned("", "nil", c, <<>>, <<>>)
        ELSE IF q = "err" \/ Len(found) = 0
        THEN Returned("", "nil", c, <<>>, <<Query("keystore", q)>>)
        ELSE IF ~keystoreData.ok
        THEN Returned("", "failed to decode keystore file", c, <<>>, <<Query("keystore", q)>>)
        ELSE IF r # "ok"
        THEN Returned("", "failed to create Secret", c, <<call>>, <<Query("keystore", q)>>)
        ELSE Returned(secretName, "nil", Put(c, "Secret", secretName, secret),
                      <<call>>, <<Query("keystore", q)>>)

CreatePersistentVolumeClaimForArtifacts(c, buildID, r) ==
    LET pvcName == PVCNameCreate(buildID)
        pvc == [Name |-> pvcName, Labels |-> BuildLabels(buildID),
                AccessModes |-> <<"ReadWriteOnce">>, StorageClassName |-> "standard",
                Storage |-> "5Gi"]
        call == Call("create", "PersistentVolumeClaim", pvcName, r)
    IN  IF r # "ok" THEN Returned("", "failed to create PVC", c, <<call>>, <<>>)
        ELSE Returned(pvcName, "nil", Put(c, "PersistentVolumeClaim", pvcName, pvc),
                      <<call>>, <<>>)

----------------------------------------------------------------------------
(* pod.go: CreateBuildPod, from the environment variables to the Pod object *)

\* DatabaseEnvVars that leaves out a row whose name the composer has set
DatabaseEnvVarsDeduplicated(config, q) ==
    IF q = "ok"
    THEN LET composed == buildEnvironmentVariables(config)
             dbEnvs == SelectSeq(FindEnvs(config.Project.ID, "env"),
                                 LAMBDA e : \A i \in 1..Len(composed) : composed[i].Name # e.Key)
         IN  [i \in 1..Len(dbEnvs) |-> EnvVar(dbEnvs[i].Key, dbEnvs[i].Value)]
    ELSE <<>>

\* the variable rows of the project, appended verbatim (skipped when the query fails)
DatabaseEnvVars(config, q) ==
    IF q = "ok"
    THEN LET dbEnvs == FindEnvs(config.Project.ID, "env")
         IN  [i \in 1..Len(dbEnvs) |-> EnvVar(dbEnvs[i].Key, dbEnvs[i].Value)]
    ELSE <<>>

\* KeystoreEnvVars that copies the credentials of the keystore into the variables
KeystoreEnvVarsLiteral(secretName) ==
    IF secretName # ""
    THEN LET keystore == ActiveKeystores(ProjectOfBuilds.ID)[1]
         IN  <<EnvVar("KEYSTORE_PATH", "/keystore/keystore.jks"),
               EnvVar("KEYSTORE_PASSWORD", keystore.StorePassword),
               EnvVar("KEY_ALIAS", keystore.KeyAlias),
               EnvVar("KEY_PASSWORD", keystore.KeyPassword)>>
    ELSE <<>>

KeystoreEnvVars(secretName) ==
    IF secretName # ""
    THEN <<EnvVar("KEYSTORE_PATH", "/keystore/keystore.jks"),
           EnvVarFromSecret("KEYSTORE_PASSWORD", secretName, "store-password"),
           EnvVarFromSecret("KEY_ALIAS", secretName, "key-alias"),
           EnvVarFromSecret("KEY_PASSWORD", secretName, "key-password")>>
    ELSE <<>>

VolumeMount(name, path, readOnly) ==
    [Name |-> name, MountPath |-> path, ReadOnly |-> readOnly]

VolumeMounts(configMapName, secretName) ==
    <<VolumeMount("artifacts", "/outputs", FALSE)>>
    \o (IF configMapName # "" THEN <<VolumeMount("env-files", "/env-files", TRUE)>> ELSE <<>>)
    \o (IF secretName # "" THEN <<VolumeMount("keystore", "/keystore", TRUE)>> ELSE <<>>)

Volume(name, sourceKind, sourceName) ==
    [Name |-> name, SourceKind |-> sourceKind, SourceName |-> sourceName]

\* Volumes that declares the env-files volume whether a ConfigMap was created or not
VolumesAlwaysEnvFiles(pvcName, configMapName, secretName) ==
    <<Volume("artifacts", "PersistentVolumeClaim", pvcName),
      Volume("env-files", "ConfigMap", configMapName)>>
    \o (IF secretName # "" THEN <<Volume("keystore", "Secret", secretName)>> ELSE <<>>)

Volumes(pvcName, configMapName, secretName) ==
    <<Volume("artifacts", "PersistentVolumeClaim", pvcName)>>
    \o (IF configMapName # "" THEN <<Volume("env-files", "ConfigMap", configMapName)>> ELSE <<>>)
    \o (IF secretName # "" THEN <<Volume("keystore", "Secret", secretName)>> ELSE <<>>)

PodLabels(config) ==
    [l \in {"app", "build-id", "project-id", "platform"} |->
        CASE l = "app" -> "flotio-build"
          [] l = "build-id" -> Itoa(config.BuildID)
          [] l = "project-id" -> Itoa(config.Project.ID)
          [] l = "platform" -> config.Platform]

\* the Pod of lines 176-209, with the state of its container: its phase, and the
\* destination at which build.sh has placed each file of the env-files directory
PodObject(config, pvcName, configMapName, secretName, q) ==
    [Name |-> PodNameCreate(config.BuildID),
     Labels |-> PodLabels(config),
     RestartPolicy |-> "Never",
     Env |-> buildEnvironmentVariables(config) \o DatabaseEnvVars(config, q)
             \o KeystoreEnvVars(secretName),
     VolumeMounts |-> VolumeMounts(configMapName, secretName),
     Volumes |-> Volumes(pvcName, configMapName, secretName),
     Requests |-> [cpu |-> "1000m", memory |-> "2Gi"],
     Limits |-> [cpu |-> "4000m", memory |-> "8Gi"],
     Phase |-> "Pending",
     Placed |-> EmptyMap]

\* SubmitPod that deletes the PVC again when the Pod Create fails
SubmitPodUndoingPVC(c, config, pvcName, configMapName, secretName, q, r) ==
    LET podName == PodNameCreate(config.BuildID)
        pod == PodObject(config, pvcName, configMapName, secretName, q)
        call == Call("create", "Pod", podName, r)
    IN  IF ~db.init THEN Returned("", "panic", c, <<>>, <<>>)
        ELSE IF r # "ok"
        THEN Returned("", "failed to create pod",
                      Remove(c, "PersistentVolumeClaim", pvcName), <<call>>, <<Query("env", q)>>)
        ELSE Returned(podName, "nil", Put(c, "Pod", podName, pod), <<call>>, <<Query("env", q)>>)

\* lines 65-217: with no data source the query of line 70 dereferences the nil
\* db.DB and the call panics before the Pod is submitted
SubmitPod(c, config, pvcName, configMapName, secretName, q, r) ==
    LET podName == PodNameCreate(config.BuildID)
        pod == PodObject(config, pvcName, configMapName, secretName, q)
        call == Call("create", "Pod", podName, r)
    IN  IF ~db.init THEN Returned("", "panic", c, <<>>, <<>>)
        ELSE IF r # "ok" THEN Returned("", "failed to create pod", c, <<call>>, <<Query("env", q)>>)
        ELSE Returned(podName, "nil", Put(c, "Pod", podName, pod), <<call>>, <<Query("env", q)>>)

----------------------------------------------------------------------------
(* Invocations.  A slot holds one invocation at a time, with its position  *)
(* (pc), its locals, and the history the properties read: the calls it     *)
(* issued, the query outcomes it saw, the Secret it created and the Pod it *)
(* submitted, the step that failed, if any (failed), the status string it  *)
(* returned (status), whether any other invocation ran during it (solo),   *)
(* the invocation that returned last before it started (prev) and the      *)
(* cluster it started from (pre).  An invocation that reads the log of a   *)
(* Pod has its connection (logStream) and the outcome of its last Read (n, *)
(* err); GetPodLogs has the chunks it has collected (logs), StreamPodLogs  *)
(* the channel it was given (logChan), and the consumer of the channel the *)
(* chunks it has received (logs).  The polling client of the test script   *)
(* has the statuses it has reported (reported) and the number of times it  *)
(* has fetched the logs of the Pod (fetched).                              *)

NoConfig == Config(0, "")

\* no object: the zero value of an object not composed yet
NoObject == [Name |-> ""]

\* the object a provisioning step that returned ret has created, if any
Created(ret, kind) == IF ret.name # "" THEN ret.cluster[kind][ret.name] ELSE NoObject

\* the object obj, if the step that returned ret handed it to its Create call
Submitted(ret, obj) == IF ret.calls # <<>> THEN obj ELSE NoObject

\* MaxLogLen bounds the bytes of a log; LogBufSize stands for the 4096 bytes
\* of the read buffer (pod.go:272, 309)
MaxLogLen == 3
LogBufSize == 2

\* no connection: the zero value of logStream
NoStream == [pending |-> <<>>, delivered |-> <<>>, open |-> FALSE]

\* no channel: the zero value of logChan
NoChan == [cap |-> 0, buf |-> <<>>, closed |-> FALSE, closes |-> 0]

NoSummary ==
    [op |-> "none", id |-> 0, result |-> "", clean |-> TRUE, solo |-> TRUE, changes |-> 0]

IdleProc ==
    [op |-> "none", config |-> NoConfig, pc |-> "idle",
     pvcName |-> "", configMapName |-> "", secretName |-> "",
     secret |-> NoObject, pod |-> NoObject,
     calls |-> <<>>, queries |-> <<>>, result |-> "", failed |-> "", status |-> "",
     logStream |-> NoStream, n |-> 0, err |-> "nil", logs |-> <<>>, logChan |-> NoChan,
     solo |-> TRUE, prev |-> NoSummary, pre |-> EmptyCluster,
     reported |-> <<>>, fetched |-> 0]

Active(proc) == proc.pc \notin {"idle", "done"}

Clean(proc) ==
    /\ \A i \in 1..Len(proc.calls) : proc.calls[i].result # "fail"
    /\ \A i \in 1..Len(proc.queries) : proc.queries[i].result # "err"

Summary(proc) ==
    [op |-> proc.op, id |-> proc.config.BuildID, result |-> proc.result,
     clean |-> Clean(proc), solo |-> proc.solo,
     changes |-> Len(SelectSeq(proc.calls, LAMBDA c : c.result = "ok"))]

NewProc(p, op, config) ==
    [IdleProc EXCEPT !.op = op, !.config = config,
                     !.solo = \A q \in Procs \ {p} : ~Active(procs[q]),
                     !.prev = last,
                     !.pre = cluster]

\* slot p starts invocation rec: every invocation under way is no longer solo
Begin(p, rec) ==
    /\ procs' = [q \in Procs |->
                    IF q = p THEN rec
                    ELSE IF Active(procs[q]) THEN [procs[q] EXCEPT !.solo = FALSE]
                    ELSE procs[q]]
    /\ last' = IF rec.pc = "done" THEN Summary(rec) ELSE last

\* slot p moves on to rec
Advance(p, rec) ==
    /\ procs' = [procs EXCEPT ![p] = rec]
    /\ last' = IF rec.pc = "done" THEN Summary(rec) ELSE last

\* AfterStep without the early return on an error
AfterStepNoReturn(proc, ret, err, next) ==
    LET logged == [proc EXCEPT !.calls = @ \o ret.calls, !.queries = @ \o ret.queried]
    IN  [logged EXCEPT !.pc = next, !.result = IF next = "done" THEN "nil" ELSE ""]

\* AfterStep that returns the error of the step as it is, without the
\* message of CreateBuildPod before it
AfterStepUnwrapped(proc, ret, err, next) ==
    LET logged == [proc EXCEPT !.calls = @ \o ret.calls, !.queries = @ \o ret.queried]
    IN  IF ret.err # "nil"
        THEN [logged EXCEPT !.pc = "done", !.result = ret.err, !.failed = proc.pc]
        ELSE [logged EXCEPT !.pc = next, !.result = IF next = "done" THEN "nil" ELSE ""]

\* the invocation of slot p after a step that returned ret: on an error it
\* returns err, otherwise it goes on at pc next
AfterStep(proc, ret, err, next) ==
    LET logged == [proc EXCEPT !.calls = @ \o ret.calls, !.queries = @ \o ret.queried]
    IN  IF ret.err # "nil"
        THEN [logged EXCEPT !.pc = "done", !.result = err, !.failed = proc.pc]
        ELSE [logged EXCEPT !.pc = next, !.result = IF next = "done" THEN "nil" ELSE ""]

----------------------------------------------------------------------------
(* CreateBuildPod (StartBuild), one action per suspension point *)

\* the order of the provisioning steps: lines 44-48, 50-54, 56-63, 65-217
StepAfterSecretFirst(pc) ==
    CASE pc = "pvc" -> "secret"
      [] pc = "secret" -> "configmap"
      [] pc = "configmap" -> "pod"
      [] pc = "pod" -> "done"

StepAfter(pc) ==
    CASE pc = "pvc" -> "configmap"
      [] pc = "configmap" -> "secret"
      [] pc = "secret" -> "pod"
      [] pc = "pod" -> "done"

\* lines 30-42: resolve the cluster configuration and the clientset
CreateBuildPod(p, config) ==
    /\ ~Active(procs[p])
    /\ ncalls < MaxCalls
    /\ ncalls' = ncalls + 1
    /\ \E outcome \in {"ok"} \cup (IF FaultLeft THEN {"noconfig", "noclientset"} ELSE {}) :
          /\ nfaults' = IF outcome = "ok" THEN nfaults ELSE nfaults + 1
          /\ LET fresh == NewProc(p, "start", config)
             IN  Begin(p, CASE outcome = "ok" -> [fresh EXCEPT !.pc = "pvc"]
                            [] outcome = "noconfig" ->
                                 [fresh EXCEPT !.pc = "done", !.failed = "config",
                                               !.result = "failed to get in-cluster config"]
                            [] outcome = "noclientset" ->
                                 [fresh EXCEPT !.pc = "done", !.failed = "clientset",
                                               !.result = "failed to create clientset"])
    /\ UNCHANGED <<db, cluster, nameIn, nameOut>>

\* lines 44-48
StepCreatePVC(p) ==
    /\ procs[p].pc = "pvc"
    /\ LET proc == procs[p]
       IN  \E r \in CreateOutcomes("PersistentVolumeClaim", PVCNameCreate(proc.config.BuildID)) :
             LET ret == CreatePersistentVolumeClaimForArtifacts(cluster, proc.config.BuildID, r)
             IN  /\ cluster' = ret.cluster
                 /\ nfaults' = nfaults + FaultsOf("ok", r)
                 /\ Advance(p, AfterStep([proc EXCEPT !.pvcName = ret.name], ret,
                                         "failed to create PVC", StepAfter("pvc")))
    /\ UNCHANGED <<db, ncalls, nameIn, nameOut>>

\* lines 50-54
StepCreateConfigMap(p) ==
    /\ procs[p].pc = "configmap"
    /\ LET proc == procs[p]
       IN  \E q \in QueryOutcomes :
           \E r \in CreateOutcomes("ConfigMap", ConfigMapNameCreate(proc.config.BuildID)) :
             LET ret == CreateConfigMapForEnvFiles(cluster, proc.config.BuildID,
                                                   proc.config.Project.ID, q, r)
                 used == FaultsOf(IF ret.queried # <<>> THEN ret.queried[1].result ELSE "ok",
                                  IF ret.calls # <<>> THEN r ELSE "ok")
             IN  /\ nfaults + used <= MaxFaults
                 /\ cluster' = ret.cluster
                 /\ nfaults' = nfaults + used
                 /\ Advance(p, AfterStep([proc EXCEPT !.configMapName = ret.name], ret,
                                         "failed to create ConfigMap", StepAfter("configmap")))
    /\ UNCHANGED <<db, ncalls, nameIn, nameOut>>

\* NeedsKeystore without the test of the platform
NeedsKeystoreAlways(config) == TRUE

\* line 58: the Secret is provisioned for Platform "android" only
NeedsKeystore(config) == config.Platform = "android"

\* lines 56-63
StepCreateSecret(p) ==
    /\ procs[p].pc = "secret"
    /\ LET proc == procs[p]
       IN  IF NeedsKeystore(proc.config)
           THEN \E q \in QueryOutcomes :
                \E r \in CreateOutcomes("Secret", SecretNameCreate(proc.config.BuildID)) :
                  LET ret == CreateSecretForKeystore(cluster, proc.config.BuildID,
                                                     proc.config.Project.ID, q, r)
                      used == FaultsOf(IF ret.queried # <<>> THEN ret.queried[1].result ELSE "ok",
                                       IF ret.calls # <<>> THEN r ELSE "ok")
                  IN  /\ nfaults + used <= MaxFaults
                      /\ cluster' = ret.cluster
                      /\ nfaults' = nfaults + used
                      /\ Advance(p, AfterStep([proc EXCEPT !.secretName = ret.name,
                                                            !.secret = Created(ret, "Secret")],
                                              ret,
                                              "failed to create Secret", StepAfter("secret")))
           ELSE /\ Advance(p, [proc EXCEPT !.pc = StepAfter("secret")])
                /\ UNCHANGED <<cluster, nfaults>>
    /\ UNCHANGED <<db, ncalls, nameIn, nameOut>>

\* lines 65-217
StepCreatePod(p) ==
    /\ procs[p].pc = "pod"
    /\ LET proc == procs[p]
       IN  \E q \in QueryOutcomes :
           \E r \in CreateOutcomes("Pod", PodNameCreate(proc.config.BuildID)) :
             LET ret == SubmitPod(cluster, proc.config, proc.pvcName, proc.configMapName,
                                  proc.secretName, q, r)
                 pod == PodObject(proc.config, proc.pvcName, proc.configMapName,
                                  proc.secretName, q)
                 used == FaultsOf(IF ret.queried # <<>> THEN ret.queried[1].result ELSE "ok",
                                  IF ret.calls # <<>> THEN r ELSE "ok")
             IN  /\ nfaults + used <= MaxFaults
                 /\ cluster' = ret.cluster
                 /\ nfaults' = nfaults + used
                 /\ Advance(p, AfterStep([proc EXCEPT !.pod = Submitted(ret, pod)],
                                         ret, ret.err, StepAfter("pod")))
    /\ UNCHANGED <<db, ncalls, nameIn, nameOut>>

----------------------------------------------------------------------------
(* resources.go: DeleteBuildResources, one action per Delete call *)

\* the four Delete calls, in the order of the code
DeleteTarget(pc, buildID) ==
    CASE pc = "delPod" -> [kind |-> "Pod", name |-> PodNameDelete(buildID)]
      [] pc = "delConfigMap" -> [kind |-> "ConfigMap", name |-> ConfigMapNameDelete(buildID)]
      [] pc = "delSecret" -> [kind |-> "Secret", name |-> SecretNameDelete(buildID)]
      [] pc = "delPVC" -> [kind |-> "PersistentVolumeClaim", name |-> PVCNameDelete(buildID)]

\* DeleteNext that leaves the Secret out
DeleteNextWithoutSecret(pc, r) ==
    CASE pc = "delPod" -> "delConfigMap"
      [] pc = "delConfigMap" -> "delPVC"
      [] pc = "delSecret" -> "delPVC"
      [] pc = "delPVC" -> "done"

\* DeleteNext that returns at the first Delete that finds nothing
DeleteNextStoppingAtNotFound(pc, r) ==
    IF r = "notfound" THEN "done"
    ELSE CASE pc = "delPod" -> "delConfigMap"
           [] pc = "delConfigMap" -> "delSecret"
           [] pc = "delSecret" -> "delPVC"
           [] pc = "delPVC" -> "done"

\* where the function goes after a Delete call that returned r: an error is
\* printed as a warning and the function goes on
DeleteNext(pc, r) ==
    CASE pc = "delPod" -> "delConfigMap"
      [] pc = "delConfigMap" -> "delSecret"
      [] pc = "delSecret" -> "delPVC"
      [] pc = "delPVC" -> "done"

\* the cluster after a Delete of (kind, name) that returned r
DeleteObject(c, kind, name, r) == IF r = "ok" THEN Remove(c, kind, name) ELSE c

\* DeleteResult that reports an object that was not found
DeleteResultReportingNotFound(calls) ==
    IF \E i \in 1..Len(calls) : calls[i].result = "notfound" THEN "not found" ELSE "nil"

\* the value DeleteBuildResources returns
DeleteResult(calls) == "nil"

DeleteBuildResources(p, buildID) ==
    /\ ~Active(procs[p])
    /\ ncalls < MaxCalls
    /\ ncalls' = ncalls + 1
    /\ Begin(p, [NewProc(p, "delete", Config(buildID, "")) EXCEPT !.pc = "delPod"])
    /\ UNCHANGED <<db, cluster, nfaults, nameIn, nameOut>>

DeleteStep(p, pc) ==
    /\ procs[p].pc = pc
    /\ LET proc == procs[p]
           t == DeleteTarget(pc, proc.config.BuildID)
       IN  \E r \in DeleteOutcomes(t.kind, t.name) :
             LET next == DeleteNext(pc, r)
                 calls == Append(proc.calls, Call("delete", t.kind, t.name, r))
             IN  /\ cluster' = DeleteObject(cluster, t.kind, t.name, r)
                 /\ nfaults' = nfaults + FaultsOf("ok", r)
                 /\ Advance(p, [proc EXCEPT !.calls = calls, !.pc = next,
                                            !.result = IF next = "done"
                                                       THEN DeleteResult(calls) ELSE ""])
    /\ UNCHANGED <<db, ncalls, nameIn, nameOut>>

StepDeletePod(p) == DeleteStep(p, "delPod")
StepDeleteConfigMap(p) == DeleteStep(p, "delConfigMap")
StepDeleteSecret(p) == DeleteStep(p, "delSecret")
StepDeletePVC(p) == DeleteStep(p, "delPVC")

----------------------------------------------------------------------------
(* The orchestrator *)

NoNames == [n \in {} |-> ""]

Init ==
    /\ db \in DataSources
    /\ cluster = EmptyCluster
    /\ procs = [p \in Procs |-> IdleProc]
    /\ ncalls = 0
    /\ nfaults = 0
    /\ last = NoSummary
    /\ nameIn = <<0, 0>>
    /\ nameOut = NoNames

Next ==
    \/ \E p \in Callers, id \in BuildIDs, platform \in Platforms :
          CreateBuildPod(p, Config(id, platform))
    \/ \E p \in Callers : StepCreatePVC(p)
    \/ \E p \in Callers : StepCreateConfigMap(p)
    \/ \E p \in Callers : StepCreateSecret(p)
    \/ \E p \in Callers : StepCreatePod(p)
    \/ \E p \in Callers, id \in BuildIDs : DeleteBuildResources(p, id)
    \/ \E p \in Callers : StepDeletePod(p)
    \/ \E p \in Callers : StepDeleteConfigMap(p)
    \/ \E p \in Callers : StepDeleteSecret(p)
    \/ \E p \in Callers : StepDeletePVC(p)

Spec == Init /\ [][Next]_vars

----------------------------------------------------------------------------
(* SpecNames: the resource names of two BuildIDs, computed at each place of *)
(* the code that computes them.  nameOut maps <<place, kind, i>> to the     *)
(* name the place computes for the kind and the BuildID nameIn[i].         *)

NamedAt(place, names) ==
    [k \in {<<place, kind, i>> : kind \in DOMAIN names, i \in {1, 2}} |->
        names[k[2]][k[3]]]

Merge(f, g) == [k \in DOMAIN f \cup DOMAIN g |-> IF k \in DOMAIN g THEN g[k] ELSE f[k]]

ComputedAt(place) == \E k \in DOMAIN nameOut : k[1] = place

InitNames ==
    /\ db = NoDB
    /\ cluster = EmptyCluster
    /\ procs = [p \in Procs |-> IdleProc]
    /\ ncalls = 0
    /\ nfaults = 0
    /\ last = NoSummary
    /\ nameIn \in NameIDs \X NameIDs
    /\ nameOut = NoNames

\* pod.go:42 and resources.go:33, 99, 137
NamesAtCreate ==
    /\ ~ComputedAt("create")
    /\ nameOut' = Merge(nameOut, NamedAt("create",
          [Pod |-> [i \in {1, 2} |-> PodNameCreate(nameIn[i])],
           ConfigMap |-> [i \in {1, 2} |-> ConfigMapNameCreate(nameIn[i])],
           Secret |-> [i \in {1, 2} |-> SecretNameCreate(nameIn[i])],
           PersistentVolumeClaim |-> [i \in {1, 2} |-> PVCNameCreate(nameIn[i])]]))
    /\ UNCHANGED <<db, cluster, procs, ncalls, nfaults, last, nameIn>>

\* resources.go:178, 188, 195, 202
NamesAtDelete ==
    /\ ~ComputedAt("delete")
    /\ nameOut' = Merge(nameOut, NamedAt("delete",
          [Pod |-> [i \in {1, 2} |-> PodNameDelete(nameIn[i])],
           ConfigMap |-> [i \in {1, 2} |-> ConfigMapNameDelete(nameIn[i])],
           Secret |-> [i \in {1, 2} |-> SecretNameDelete(nameIn[i])],
           PersistentVolumeClaim |-> [i \in {1, 2} |-> PVCNameDelete(nameIn[i])]]))
    /\ UNCHANGED <<db, cluster, procs, ncalls, nfaults, last, nameIn>>

\* pod.go:336
NamesAtStatus ==
    /\ ~ComputedAt("status")
    /\ nameOut' = Merge(nameOut, NamedAt("status",
          [Pod |-> [i \in {1, 2} |-> PodNameStatus(nameIn[i])]]))
    /\ UNCHANGED <<db, cluster, procs, ncalls, nfaults, last, nameIn>>

\* pod.go:261, 297, 369
NamesAtLogs ==
    /\ ~ComputedAt("logs")
    /\ nameOut' = Merge(Merge(Merge(nameOut,
          NamedAt("logs", [Pod |-> [i \in {1, 2} |-> PodNameLogs(nameIn[i])]])),
          NamedAt("stream", [Pod |-> [i \in {1, 2} |-> PodNameStream(nameIn[i])]])),
          NamedAt("artifacts", [Pod |-> [i \in {1, 2} |-> PodNameArtifacts(nameIn[i])]]))
    /\ UNCHANGED <<db, cluster, procs, ncalls, nfaults, last, nameIn>>

NextNames ==
    \/ NamesAtCreate
    \/ NamesAtDelete
    \/ NamesAtStatus
    \/ NamesAtLogs

SpecNames == InitNames /\ [][NextNames]_vars

----------------------------------------------------------------------------
(* Vocabulary of the properties *)

Starts == {p \in Procs : procs[p].op = "start"}
Deletes == {p \in Procs : procs[p].op = "delete"}

HasReturned(p) == procs[p].pc = "done"

KindsOf(calls) == [i \in 1..Len(calls) |-> calls[i].kind]

Rank(kind) ==
    CASE kind = "PersistentVolumeClaim" -> 1
      [] kind = "ConfigMap" -> 2
      [] kind = "Secret" -> 3
      [] kind = "Pod" -> 4

Issued(proc, verb, kind) ==
    \E i \in 1..Len(proc.calls) : proc.calls[i].verb = verb /\ proc.calls[i].kind = kind

Succeeded(proc, verb, kind) ==
    \E i \in 1..Len(proc.calls) :
        /\ proc.calls[i].verb = verb
        /\ proc.calls[i].kind = kind
        /\ proc.calls[i].result = "ok"

AllCallsOk(proc) == \A i \in 1..Len(proc.calls) : proc.calls[i].result = "ok"

IsError(result) == result \notin {"", "nil", "panic"}

\* the objects a CreateBuildPod invocation created: those of its successful calls
CreatedBy(proc) ==
    {<<proc.calls[i].kind, proc.calls[i].name>> :
        i \in {j \in 1..Len(proc.calls) : proc.calls[j].result = "ok"}}

\* cluster c is cluster b plus exactly the objects named in added
GrownBy(b, c, added) ==
    \A k \in Kinds :
        /\ DOMAIN c[k] = DOMAIN b[k] \cup {n \in {a[2] : a \in added} : <<k, n>> \in added}
        /\ \A n \in DOMAIN b[k] : c[k][n] = b[k][n]

FileEntries(config) == IF db.init THEN FindEnvs(config.Project.ID, "file") ELSE <<>>

HasActiveKeystore(config) == db.init /\ Len(ActiveKeystores(config.Project.ID)) > 0

----------------------------------------------------------------------------
\* C1: in every execution of CreateBuildPod the calls issued are Creates, in the
\* order PVC, ConfigMap, Secret, Pod, each kind at most once; the ConfigMap
\* Create is issued only when the project has file entries and the Secret
\* Create only for "android"; and the Pod Create is issued only after the PVC
\* Create and every other Create issued before it have succeeded.
C1_CreateOrder ==
    \A p \in Starts :
        LET proc == procs[p]
            calls == proc.calls
        IN  /\ \A i \in 1..Len(calls) : calls[i].verb = "create"
            /\ \A i, j \in 1..Len(calls) :
                  i < j => Rank(calls[i].kind) < Rank(calls[j].kind)
            /\ Issued(proc, "create", "ConfigMap") => Len(FileEntries(proc.config)) > 0
            /\ Issued(proc, "create", "Secret") => proc.config.Platform = "android"
            /\ Issued(proc, "create", "Pod") =>
                  /\ Succeeded(proc, "create", "PersistentVolumeClaim")
                  /\ \A i \in 1..Len(calls) : calls[i].kind # "Pod" => calls[i].result = "ok"
                  /\ Len(FileEntries(proc.config)) > 0 => Succeeded(proc, "create", "ConfigMap")

\* all four Creates were issued by one invocation
C1_Witness ==
    \E p \in Starts :
        KindsOf(procs[p].calls) = <<"PersistentVolumeClaim", "ConfigMap", "Secret", "Pod">>

\* C2: when a provisioning step of CreateBuildPod fails, the invocation returns
\* an error at once: the failed call is the last call it issued, it issued no
\* Delete, and the cluster it leaves is the cluster it started from plus every
\* object its earlier steps created (nothing is rolled back).
C2_NoRollback ==
    \A p \in Starts :
        LET proc == procs[p]
            calls == proc.calls
        IN  /\ \A i \in 1..Len(calls) :
                  calls[i].result # "ok" =>
                      /\ i = Len(calls)
                      /\ HasReturned(p)
                      /\ IsError(proc.result)
            /\ (HasReturned(p) /\ IsError(proc.result)) =>
                  /\ \A i \in 1..Len(calls) : calls[i].verb # "delete"
                  /\ proc.solo => GrownBy(proc.pre, cluster, CreatedBy(proc))

\* the Pod Create failed after the PVC, the ConfigMap and the Secret were created
C2_Witness ==
    \E p \in Starts :
        /\ HasReturned(p)
        /\ procs[p].result = "failed to create pod"
        /\ Cardinality(CreatedBy(procs[p])) = 3
        /\ \A a \in CreatedBy(procs[p]) : Exists(cluster, a[1], a[2])

\* C3: when CreateBuildPod returns an error it has created no Pod (the Pods of
\* the cluster are those it started from); it has created one only if the PVC
\* Create and every other Create it issued succeeded, and then it returns nil.
C3_NoPodOnError ==
    \A p \in Starts :
        LET proc == procs[p]
        IN  /\ (HasReturned(p) /\ proc.result # "nil") =>
                  /\ ~Succeeded(proc, "create", "Pod")
                  /\ proc.solo => cluster["Pod"] = proc.pre["Pod"]
            /\ Succeeded(proc, "create", "Pod") =>
                  /\ AllCallsOk(proc)
                  /\ Succeeded(proc, "create", "PersistentVolumeClaim")
                  /\ HasReturned(p) /\ proc.result = "nil"
                  /\ Exists(cluster, "Pod", PodNameCreate(proc.config.BuildID))

\* the Pod Create was issued and failed: an error and no Pod
C3_Witness ==
    \E p \in Starts :
        /\ HasReturned(p)
        /\ procs[p].result = "failed to create pod"
        /\ Issued(procs[p], "create", "Pod")
        /\ ~Exists(cluster, "Pod", PodNameCreate(procs[p].config.BuildID))

\* C4: every execution of DeleteBuildResources issues exactly the four Deletes
\* of the build, Pod, ConfigMap, Secret, PVC, once each and in that order,
\* whatever each of them returns, and returns nil.
C4_DeleteAttemptsAll ==
    \A p \in Deletes :
        LET proc == procs[p]
            calls == proc.calls
            id == proc.config.BuildID
            all == <<Call("delete", "Pod", PodNameDelete(id), ""),
                     Call("delete", "ConfigMap", ConfigMapNameDelete(id), ""),
                     Call("delete", "Secret", SecretNameDelete(id), ""),
                     Call("delete", "PersistentVolumeClaim", PVCNameDelete(id), "")>>
            done == CASE proc.pc = "delPod" -> 0
                      [] proc.pc = "delConfigMap" -> 1
                      [] proc.pc = "delSecret" -> 2
                      [] proc.pc = "delPVC" -> 3
                      [] proc.pc = "done" -> 4
        IN  /\ Len(calls) = done
            /\ \A i \in 1..Len(calls) : [calls[i] EXCEPT !.result = ""] = all[i]
            /\ HasReturned(p) => proc.result = "nil"
            /\ ~HasReturned(p) => proc.result = ""

\* the first Delete failed, another found nothing, and all four were issued
C4_Witness ==
    \E p \in Deletes :
        /\ HasReturned(p)
        /\ procs[p].calls[1].result = "fail"
        /\ \E i \in 2..4 : procs[p].calls[i].result = "notfound"
        /\ \E i \in 2..4 : procs[p].calls[i].result = "ok"

\* C5: a DeleteBuildResources for a build of which some or all of the four
\* objects are absent runs to its end and returns nil; every object that was
\* absent is still absent, and no other object of the cluster is touched by
\* the Deletes that found nothing.
C5_DeleteToleratesAbsence ==
    \A p \in Deletes :
        LET proc == procs[p]
            calls == proc.calls
        IN  (HasReturned(p) /\ \E i \in 1..Len(calls) : calls[i].result = "notfound") =>
              /\ proc.result = "nil"
              /\ Len(calls) = 4
              /\ proc.solo =>
                    \A i \in 1..Len(calls) :
                        calls[i].result = "notfound" =>
                            /\ ~Exists(proc.pre, calls[i].kind, calls[i].name)
                            /\ ~Exists(cluster, calls[i].kind, calls[i].name)
                            /\ \A n \in DOMAIN proc.pre[calls[i].kind] :
                                  n \in DOMAIN cluster[calls[i].kind]
                                  /\ cluster[calls[i].kind][n] = proc.pre[calls[i].kind][n]

\* only some of the objects existed: the Pod was absent, the PVC was deleted
C5_Witness ==
    \E p \in Deletes :
        /\ HasReturned(p)
        /\ procs[p].calls[1].result = "notfound"
        /\ procs[p].calls[4].result = "ok"
        /\ procs[p].result = "nil"

\* C6: DeleteBuildResources is idempotent: run a second time in a row for the
\* same BuildID, with no cluster API failure in either run, it leaves the
\* cluster as the first run left it and returns nil as the first run did.
C6_DeleteIdempotent ==
    \A p \in Deletes :
        LET proc == procs[p]
        IN  (/\ HasReturned(p)
             /\ proc.solo
             /\ Clean(proc)
             /\ proc.prev.op = "delete"
             /\ proc.prev.id = proc.config.BuildID
             /\ proc.prev.clean
             /\ proc.prev.solo) =>
              /\ proc.prev.result = "nil"
              /\ proc.result = "nil"
              /\ cluster = proc.pre

\* the second of two runs in a row, the first of which deleted objects
C6_Witness ==
    \E p \in Deletes :
        /\ HasReturned(p)
        /\ procs[p].solo /\ Clean(procs[p])
        /\ procs[p].prev.op = "delete"
        /\ procs[p].prev.id = procs[p].config.BuildID
        /\ procs[p].prev.clean /\ procs[p].prev.solo
        /\ procs[p].prev.changes >= 2

\* C7: after a CreateBuildPod for BuildID x, whatever it returned, followed by
\* a DeleteBuildResources for x none of whose Deletes fails (not-found aside),
\* the namespace holds none of build-x, build-x-env-files, build-x-keystore,
\* build-x-artifacts.
C7_DeleteAfterStartLeavesNothing ==
    \A p \in Deletes :
        LET proc == procs[p]
            id == proc.config.BuildID
        IN  (/\ HasReturned(p)
             /\ proc.solo
             /\ Clean(proc)
             /\ proc.prev.op = "start"
             /\ proc.prev.id = id
             /\ proc.prev.solo) =>
              /\ ~Exists(cluster, "Pod", PodNameCreate(id))
              /\ ~Exists(cluster, "ConfigMap", ConfigMapNameCreate(id))
              /\ ~Exists(cluster, "Secret", SecretNameCreate(id))
              /\ ~Exists(cluster, "PersistentVolumeClaim", PVCNameCreate(id))

\* the CreateBuildPod created all four objects and the run deleted all four
C7_Witness ==
    \E p \in Deletes :
        /\ HasReturned(p)
        /\ procs[p].solo
        /\ procs[p].prev.op = "start"
        /\ procs[p].prev.id = procs[p].config.BuildID
        /\ procs[p].prev.result = "nil"
        /\ procs[p].prev.changes = 4
        /\ AllCallsOk(procs[p])

----------------------------------------------------------------------------
(* The naming scheme of section 6, written with TLC's own decimal printing *)

NameSuffix(kind) ==
    CASE kind = "Pod" -> ""
      [] kind = "ConfigMap" -> "-env-files"
      [] kind = "Secret" -> "-keystore"
      [] kind = "PersistentVolumeClaim" -> "-artifacts"

SchemeName(kind, x) == "build-" \o ToString(x) \o NameSuffix(kind)

\* C8: at every place that computes it (create, delete, status, logs, stream,
\* artifacts) the name of a kind for BuildID x is build-x plus the suffix of
\* the kind, so all places agree; and no name computed for x equals a name
\* computed for a BuildID y different from x, of any kind at any place.
C8_DeterministicDistinctNames ==
    /\ \A k \in DOMAIN nameOut : nameOut[k] = SchemeName(k[2], nameIn[k[3]])
    /\ \A k, l \in DOMAIN nameOut :
          (k[2] = l[2] /\ k[3] = l[3]) => nameOut[k] = nameOut[l]
    /\ \A k, l \in DOMAIN nameOut :
          nameIn[k[3]] # nameIn[l[3]] => nameOut[k] # nameOut[l]

\* every place has computed its names for 1 and 11, one the decimal prefix of
\* the other
C8_Witness ==
    /\ nameIn = <<1, 11>>
    /\ \A place \in {"create", "delete", "status", "logs", "stream", "artifacts"} :
          ComputedAt(place)
    /\ nameOut[<<"create", "Pod", 2>>] = "build-11"
    /\ nameOut[<<"delete", "PersistentVolumeClaim", 1>>] = "build-1-artifacts"

----------------------------------------------------------------------------
(* The keystore in a submitted Pod *)

KeystoreVarNames == {"KEYSTORE_PATH", "KEYSTORE_PASSWORD", "KEY_ALIAS", "KEY_PASSWORD"}

InSeq(x, seq) == \E i \in 1..Len(seq) : seq[i] = x

\* KEYSTORE_PATH, the three variables that refer to keys of Secret secretName,
\* the keystore volume backed by that Secret and its read-only mount
KeystoreWired(pod, secretName) ==
    /\ InSeq(EnvVar("KEYSTORE_PATH", "/keystore/keystore.jks"), pod.Env)
    /\ InSeq(EnvVarFromSecret("KEYSTORE_PASSWORD", secretName, "store-password"), pod.Env)
    /\ InSeq(EnvVarFromSecret("KEY_ALIAS", secretName, "key-alias"), pod.Env)
    /\ InSeq(EnvVarFromSecret("KEY_PASSWORD", secretName, "key-password"), pod.Env)
    /\ InSeq(Volume("keystore", "Secret", secretName), pod.Volumes)
    /\ InSeq(VolumeMount("keystore", "/keystore", TRUE), pod.VolumeMounts)

NoKeystoreIn(pod) ==
    /\ \A i \in 1..Len(pod.Env) :
          pod.Env[i].Name \notin KeystoreVarNames /\ pod.Env[i].SecretName = ""
    /\ \A i \in 1..Len(pod.Volumes) :
          pod.Volumes[i].Name # "keystore" /\ pod.Volumes[i].SourceKind # "Secret"
    /\ \A i \in 1..Len(pod.VolumeMounts) :
          pod.VolumeMounts[i].Name # "keystore" /\ pod.VolumeMounts[i].MountPath # "/keystore"

KeystoreLookupFailed(proc) ==
    \E i \in 1..Len(proc.queries) :
        proc.queries[i].type = "keystore" /\ proc.queries[i].result = "err"

\* C9: CreateBuildPod issues the Secret Create only for Platform "android" with
\* an active keystore of the project; a CreateBuildPod that returns nil (the
\* keystore lookup not having failed) has created the Secret if and only if
\* the Platform is "android" and the project has an active keystore; with the
\* Secret, its Pod has KEYSTORE_PATH, the three variables that refer to the
\* Secret, and the keystore volume mounted read-only; without it (any other
\* platform, the same keystore) no Secret was created and the Pod has no
\* keystore variable, volume or mount.
C9_SecretIffAndroidWithKeystore ==
    \A p \in Starts :
        LET proc == procs[p]
            id == proc.config.BuildID
            wanted == proc.config.Platform = "android" /\ HasActiveKeystore(proc.config)
            pod == cluster["Pod"][PodNameCreate(id)]
        IN  /\ Issued(proc, "create", "Secret") => wanted
            /\ (HasReturned(p) /\ proc.result = "nil") =>
                  /\ ~KeystoreLookupFailed(proc) => (Succeeded(proc, "create", "Secret") <=> wanted)
                  /\ proc.solo =>
                        IF Succeeded(proc, "create", "Secret")
                        THEN /\ Exists(cluster, "Secret", SecretNameCreate(id))
                             /\ KeystoreWired(pod, SecretNameCreate(id))
                        ELSE /\ cluster["Secret"] = proc.pre["Secret"]
                             /\ NoKeystoreIn(pod)

\* an "android" build of a project with an active keystore returned nil
C9_Witness ==
    \E p \in Starts :
        /\ HasReturned(p)
        /\ procs[p].result = "nil"
        /\ procs[p].config.Platform = "android"
        /\ HasActiveKeystore(procs[p].config)
        /\ Succeeded(procs[p], "create", "Secret")
        /\ KeystoreWired(cluster["Pod"][PodNameCreate(procs[p].config.BuildID)],
                         SecretNameCreate(procs[p].config.BuildID))

\* C10: with Platform "android", a data source and no active keystore of the
\* project, a CreateBuildPod in which no cluster call and no query fails and
\* every file payload decodes returns nil: it has created the PVC and the
\* Pod, has issued no Secret Create, and the Pod has no keystore variable,
\* volume or mount.
C10_AndroidWithoutKeystore ==
    \A p \in Starts :
        LET proc == procs[p]
            id == proc.config.BuildID
        IN  (/\ HasReturned(p)
             /\ proc.result \notin {"failed to get in-cluster config",
                                    "failed to create clientset"}
             /\ proc.config.Platform = "android"
             /\ db.init
             /\ ~HasActiveKeystore(proc.config)
             /\ Clean(proc)
             /\ AllCallsOk(proc)
             /\ ConfigMapData(FileEntries(proc.config)).ok) =>
              /\ proc.result = "nil"
              /\ Succeeded(proc, "create", "PersistentVolumeClaim")
              /\ Succeeded(proc, "create", "Pod")
              /\ ~Issued(proc, "create", "Secret")
              /\ proc.solo =>
                    /\ cluster["Secret"] = proc.pre["Secret"]
                    /\ Exists(cluster, "PersistentVolumeClaim", PVCNameCreate(id))
                    /\ Exists(cluster, "Pod", PodNameCreate(id))
                    /\ NoKeystoreIn(cluster["Pod"][PodNameCreate(id)])

\* an "android" build of a project without active keystore returned nil
C10_Witness ==
    \E p \in Starts :
        /\ HasReturned(p)
        /\ procs[p].config.Platform = "android"
        /\ db.init
        /\ ~HasActiveKeystore(procs[p].config)
        /\ procs[p].result = "nil"
        /\ Exists(cluster, "Pod", PodNameCreate(procs[p].config.BuildID))

----------------------------------------------------------------------------
\* C11: with no data source (db.DB is nil), a CreateBuildPod whose cluster
\* configuration resolves and whose cluster calls all succeed does not fail:
\* it returns nil, it issues neither the ConfigMap Create nor the Secret
\* Create, and it has created the PVC and a Pod whose variables are the fixed
\* ones of buildEnvironmentVariables.
C11_NoDataSourceStillStarts ==
    \A p \in Starts :
        LET proc == procs[p]
        IN  (/\ HasReturned(p)
             /\ ~db.init
             /\ proc.result \notin {"failed to get in-cluster config",
                                    "failed to create clientset"}
             /\ AllCallsOk(proc)) =>
              /\ proc.result = "nil"
              /\ ~Issued(proc, "create", "ConfigMap")
              /\ ~Issued(proc, "create", "Secret")
              /\ Succeeded(proc, "create", "PersistentVolumeClaim")
              /\ Succeeded(proc, "create", "Pod")
              /\ proc.pod.Name = PodNameCreate(proc.config.BuildID)
              /\ proc.pod.Env = buildEnvironmentVariables(proc.config)

----------------------------------------------------------------------------
(* The volumes and mounts of a submitted Pod *)

VolumeNamed(pod, name) == \E i \in 1..Len(pod.Volumes) : pod.Volumes[i].Name = name

MountNamed(pod, name) == \E i \in 1..Len(pod.VolumeMounts) : pod.VolumeMounts[i].Name = name

\* the invocation has created the object (kind, name) by one of its calls
HasCreated(proc, kind, name) ==
    \E i \in 1..Len(proc.calls) :
        proc.calls[i] = Call("create", kind, name, "ok")

\* C12: in the Pod a CreateBuildPod submits, the artifacts volume, backed by
\* the PVC the call created, is present and mounted read-write at /outputs;
\* the env-files volume and its read-only mount at /env-files are present if
\* and only if the call created a ConfigMap; the keystore volume and its
\* read-only mount at /keystore are present if and only if the call created a
\* Secret; every mount names a declared volume, every volume is mounted, and
\* every volume refers to an object the call created before the Pod Create.
C12_VolumesMatchProvisioned ==
    \A p \in Starts :
        LET proc == procs[p]
            pod == proc.pod
            id == proc.config.BuildID
        IN  Issued(proc, "create", "Pod") =>
              /\ pod.Name = PodNameCreate(id)
              /\ InSeq(Volume("artifacts", "PersistentVolumeClaim", PVCNameCreate(id)), pod.Volumes)
              /\ InSeq(VolumeMount("artifacts", "/outputs", FALSE), pod.VolumeMounts)
              /\ HasCreated(proc, "PersistentVolumeClaim", PVCNameCreate(id))
              /\ VolumeNamed(pod, "env-files") <=> Succeeded(proc, "create", "ConfigMap")
              /\ MountNamed(pod, "env-files") <=> Succeeded(proc, "create", "ConfigMap")
              /\ Succeeded(proc, "create", "ConfigMap") =>
                    /\ InSeq(Volume("env-files", "ConfigMap", ConfigMapNameCreate(id)), pod.Volumes)
                    /\ InSeq(VolumeMount("env-files", "/env-files", TRUE), pod.VolumeMounts)
              /\ VolumeNamed(pod, "keystore") <=> Succeeded(proc, "create", "Secret")
              /\ MountNamed(pod, "keystore") <=> Succeeded(proc, "create", "Secret")
              /\ Succeeded(proc, "create", "Secret") =>
                    /\ InSeq(Volume("keystore", "Secret", SecretNameCreate(id)), pod.Volumes)
                    /\ InSeq(VolumeMount("keystore", "/keystore", TRUE), pod.VolumeMounts)
              /\ \A i \in 1..Len(pod.VolumeMounts) : VolumeNamed(pod, pod.VolumeMounts[i].Name)
              /\ \A i \in 1..Len(pod.Volumes) :
                    /\ MountNamed(pod, pod.Volumes[i].Name)
                    /\ HasCreated(proc, pod.Volumes[i].SourceKind, pod.Volumes[i].SourceName)
                    /\ \A j \in 1..Len(pod.Volumes) :
                          pod.Volumes[j].Name = pod.Volumes[i].Name => j = i
              /\ proc.calls[Len(proc.calls)].kind = "Pod"
              /\ (proc.result = "nil" /\ proc.solo) =>
                    cluster["Pod"][PodNameCreate(id)] = pod

\* a Pod with the three volumes has been created, beside one without the
\* keystore volume
C12_Witness ==
    \E p \in Starts :
        /\ procs[p].result = "nil"
        /\ Len(procs[p].pod.Volumes) = 3
        /\ Len(procs[p].pod.VolumeMounts) = 3
        /\ \E n \in DOMAIN cluster["Pod"] : Len(cluster["Pod"][n].Volumes) = 2

\* the file query of the invocation, when it has been made and has not failed
FileQueryOk(proc) == InSeq(Query("file", "ok"), proc.queries)

\* C14: when the project has no file entry (the query of the file entries not
\* having failed), the ConfigMap step of CreateBuildPod returns the empty name
\* and no error without issuing a Create, and CreateBuildPod goes on: it never
\* returns the ConfigMap error, and the Pod it submits has no env-files volume
\* or mount; with no failure in the later steps it creates the Pod.
C14_NoFileEntriesNoConfigMap ==
    \A p \in Starts :
        LET proc == procs[p]
        IN  (db.init /\ FileEntries(proc.config) = <<>> /\ FileQueryOk(proc)) =>
              /\ ~Issued(proc, "create", "ConfigMap")
              /\ proc.configMapName = ""
              /\ proc.result # "failed to create ConfigMap"
              /\ proc.solo => cluster["ConfigMap"] = proc.pre["ConfigMap"]
              /\ Issued(proc, "create", "Pod") =>
                    /\ ~VolumeNamed(proc.pod, "env-files")
                    /\ ~MountNamed(proc.pod, "env-files")
              /\ (HasReturned(p) /\ Clean(proc) /\ AllCallsOk(proc)) =>
                    /\ proc.result = "nil"
                    /\ Succeeded(proc, "create", "Pod")

\* a build of a project without file entries has created its Pod
C14_Witness ==
    \E p \in Starts :
        /\ db.init
        /\ FileEntries(procs[p].config) = <<>>
        /\ FileQueryOk(procs[p])
        /\ procs[p].result = "nil"
        /\ Exists(cluster, "Pod", PodNameCreate(procs[p].config.BuildID))
        /\ ~VolumeNamed(cluster["Pod"][PodNameCreate(procs[p].config.BuildID)], "env-files")

----------------------------------------------------------------------------
(* Base64 payloads, characterised without decoding: after the line breaks   *)
(* are dropped the length is a multiple of four, and every character is of *)
(* the alphabet but for one or two '=' that end the text.                  *)

WellFormedBase64(s) ==
    LET t == StripNewlines(s)
        n == Len(t)
    IN  /\ n % 4 = 0
        /\ \A i \in 1..n :
              \/ IsB64(t[i])
              \/ /\ IsPad(t[i])
                 /\ i > n - 2
                 /\ \A j \in i..n : IsPad(t[j])

SomeFileMalformed(config) ==
    \E i \in 1..Len(FileEntries(config)) :
        FileEntries(config)[i].IsBase64 /\ ~WellFormedBase64(FileEntries(config)[i].Value)

KeystoreMalformed(config) ==
    /\ HasActiveKeystore(config)
    /\ ~WellFormedBase64(ActiveKeystores(config.Project.ID)[1].KeystoreFile)

\* the objects of the given kinds are those the invocation started from
Untouched(proc, kinds) == \A k \in kinds : cluster[k] = proc.pre[k]

\* C19: a CreateBuildPod that reads a file entry whose base64 payload is
\* malformed returns the ConfigMap error without issuing the ConfigMap, the
\* Secret or the Pod Create; one that reads an active keystore whose blob is
\* malformed returns the Secret error without issuing the Secret or the Pod
\* Create: in both cases no such object is created.  A payload is read when
\* its query has succeeded, the keystore for "android" only.
C19_MalformedBase64Aborts ==
    \A p \in Starts :
        LET proc == procs[p]
        IN  /\ (FileQueryOk(proc) /\ SomeFileMalformed(proc.config)) =>
                  /\ HasReturned(p)
                  /\ proc.result = "failed to create ConfigMap"
                  /\ KindsOf(proc.calls) = <<"PersistentVolumeClaim">>
                  /\ proc.pod = NoObject
                  /\ proc.solo => Untouched(proc, {"ConfigMap", "Secret", "Pod"})
            /\ (InSeq(Query("keystore", "ok"), proc.queries) /\ KeystoreMalformed(proc.config)) =>
                  /\ HasReturned(p)
                  /\ proc.result = "failed to create Secret"
                  /\ ~Issued(proc, "create", "Secret")
                  /\ ~Issued(proc, "create", "Pod")
                  /\ proc.pod = NoObject
                  /\ proc.solo => Untouched(proc, {"Secret", "Pod"})

\* a malformed keystore blob was read after the PVC and the ConfigMap were
\* created (the case of a malformed file entry is reached with the data source
\* that holds one)
C19_Witness ==
    \E p \in Starts :
        /\ HasReturned(p)
        /\ InSeq(Query("keystore", "ok"), procs[p].queries)
        /\ KeystoreMalformed(procs[p].config)
        /\ Succeeded(procs[p], "create", "ConfigMap")
        /\ procs[p].result = "failed to create Secret"

----------------------------------------------------------------------------
(* SpecSecrecy: builds of one project run one after the other by two        *)
(* callers, the material of the project's active keystore (blob, store     *)
(* password, key alias, key password) being replaced once in the data      *)
(* source between builds.  The slots keep the Secret and the Pod of the last      *)
(* build of each caller, to be compared.                                   *)

\* "AwQ=" is base64 of the bytes 3, 4
BlobOther == <<65, 119, 81, 61>>

\* the material that replaces the first: all of it changed, a credential alone
\* changed, or a blob that does not decode
KeystoreMaterials ==
    { [KeystoreFile |-> BlobOther, StorePassword |-> "sp2", KeyAlias |-> "ka2",
       KeyPassword |-> "kp2"],
      [KeystoreFile |-> BlobValid, StorePassword |-> "sp", KeyAlias |-> "ka",
       KeyPassword |-> "kp2"],
      [KeystoreFile |-> BlobBad, StorePassword |-> "sp", KeyAlias |-> "ka",
       KeyPassword |-> "kp"] }

\* the builds of SpecSecrecy are builds of one BuildID
SecrecyBuildIDs == {1}

\* no invocation is under way
Quiet == \A q \in Procs : ~Active(procs[q])

InitSecrecy ==
    /\ db = DataSource(FilesGood, KeystoresValid)
    /\ cluster = EmptyCluster
    /\ procs = [p \in Procs |-> IdleProc]
    /\ ncalls = 0
    /\ nfaults = 0
    /\ last = NoSummary
    /\ nameIn = <<0, 0>>
    /\ nameOut = NoNames

\* the material of the active keystores of the project is replaced by m
ReplaceKeystoreMaterial(m) ==
    /\ Quiet
    /\ db = DataSource(FilesGood, KeystoresValid)
    /\ db' = [db EXCEPT !.keystores =
                [i \in DOMAIN @ |->
                    IF @[i].ProjectID = ProjectOfBuilds.ID /\ @[i].IsActive
                    THEN [@[i] EXCEPT !.KeystoreFile = m.KeystoreFile,
                                      !.StorePassword = m.StorePassword,
                                      !.KeyAlias = m.KeyAlias,
                                      !.KeyPassword = m.KeyPassword]
                    ELSE @[i]]]
    /\ db' # db
    /\ UNCHANGED <<cluster, procs, ncalls, nfaults, last, nameIn, nameOut>>

NextSecrecy ==
    \/ \E p \in Procs, id \in SecrecyBuildIDs, platform \in Platforms :
          Quiet /\ CreateBuildPod(p, Config(id, platform))
    \/ \E p \in Procs : StepCreatePVC(p)
    \/ \E p \in Procs : StepCreateConfigMap(p)
    \/ \E p \in Procs : StepCreateSecret(p)
    \/ \E p \in Procs : StepCreatePod(p)
    \/ \E p \in Procs, id \in SecrecyBuildIDs : Quiet /\ DeleteBuildResources(p, id)
    \/ \E p \in Procs : StepDeletePod(p)
    \/ \E p \in Procs : StepDeleteConfigMap(p)
    \/ \E p \in Procs : StepDeleteSecret(p)
    \/ \E p \in Procs : StepDeletePVC(p)
    \/ \E m \in KeystoreMaterials : ReplaceKeystoreMaterial(m)

SpecSecrecy == InitSecrecy /\ [][NextSecrecy]_vars

SecretVarNames == {"KEYSTORE_PASSWORD", "KEY_ALIAS", "KEY_PASSWORD"}

\* C13: two CreateBuildPod of the same BuildConfig, run on data sources that
\* differ only in the blob, store password, key alias or key password of the
\* active keystore (no query or cluster call failing for another reason),
\* submit identical Pod objects; and in a submitted Pod KEYSTORE_PASSWORD,
\* KEY_ALIAS and KEY_PASSWORD have no literal value: each refers to a field of
\* the Secret the call created, which holds the material.
C13_PodFreeOfKeystoreMaterial ==
    /\ \A p, q \in Starts :
          (/\ procs[p].pod # NoObject
           /\ procs[q].pod # NoObject
           /\ procs[p].config = procs[q].config
           /\ Clean(procs[p])
           /\ Clean(procs[q])) =>
              procs[p].pod = procs[q].pod
    /\ \A p \in Starts :
          procs[p].pod # NoObject =>
              \A i \in 1..Len(procs[p].pod.Env) :
                  procs[p].pod.Env[i].Name \in SecretVarNames =>
                      /\ procs[p].pod.Env[i].Value = ""
                      /\ procs[p].secret # NoObject
                      /\ procs[p].pod.Env[i].SecretName = procs[p].secret.Name
                      /\ procs[p].pod.Env[i].SecretKey \in DOMAIN procs[p].secret.StringData

\* two builds of the same BuildConfig whose Secrets differ in the blob and in
\* each of the three credentials have submitted the same Pod
C13_Witness ==
    \E p, q \in Starts :
        /\ procs[p].config = procs[q].config
        /\ procs[p].secret # NoObject
        /\ procs[q].secret # NoObject
        /\ procs[p].secret.Data # procs[q].secret.Data
        /\ \A k \in DOMAIN procs[p].secret.StringData :
              procs[p].secret.StringData[k] # procs[q].secret.StringData[k]
        /\ procs[p].pod # NoObject
        /\ procs[p].pod = procs[q].pod

----------------------------------------------------------------------------
(* build.sh, step 3 "Process environment files": every file of the          *)
(* env-files directory whose name holds "::" is copied to the path that    *)
(* follows the first "::", each "__" of it read as "/"; any other file is  *)
(* copied to the project root under its name.                              *)

\* [[ $filename == *"::"* ]]
HasSeparator(filename) ==
    \E i \in 1..(Len(filename) - 1) : filename[i] = ":" /\ filename[i + 1] = ":"

\* ${filename#*::}: the text after the first "::"
AfterSeparator(filename) ==
    LET first == CHOOSE i \in 1..(Len(filename) - 1) :
                    /\ filename[i] = ":" /\ filename[i + 1] = ":"
                    /\ \A j \in 1..(i - 1) : ~(filename[j] = ":" /\ filename[j + 1] = ":")
    IN  SubSeq(filename, first + 2, Len(filename))

\* RestoreSlashes that reads every "_" as "/"
RECURSIVE RestoreSlashesOfEach(_)
RestoreSlashesOfEach(s) ==
    IF s = <<>> THEN <<>>
    ELSE (IF Head(s) = "_" THEN <<"/">> ELSE <<Head(s)>>) \o RestoreSlashesOfEach(Tail(s))

\* ${dest_path//__/\/}: from left to right, every "__" becomes "/"
RECURSIVE RestoreSlashes(_)
RestoreSlashes(s) ==
    IF Len(s) < 2 THEN s
    ELSE IF s[1] = "_" /\ s[2] = "_" THEN <<"/">> \o RestoreSlashes(SubSeq(s, 3, Len(s)))
    ELSE <<s[1]>> \o RestoreSlashes(Tail(s))

\* the destination of the file of the env-files directory named filename
Destination(filename) ==
    IF HasSeparator(filename) THEN RestoreSlashes(AfterSeparator(filename))
    ELSE <<".", "/">> \o filename

\* the files of the env-files directory of a Pod: the data of the ConfigMap
\* its env-files volume refers to, none without the volume
EnvFilesOf(pod) ==
    LET refs == {i \in 1..Len(pod.Volumes) : pod.Volumes[i].Name = "env-files"}
    IN  IF refs = {} THEN EmptyMap
        ELSE cluster["ConfigMap"][pod.Volumes[CHOOSE i \in refs : TRUE].SourceName].Data

\* the container of Pod name starts and build.sh places the environment files
ProcessEnvFiles(name) ==
    /\ Exists(cluster, "Pod", name)
    /\ cluster["Pod"][name].Phase = "Pending"
    /\ \A i \in 1..Len(cluster["Pod"][name].Volumes) :
          Exists(cluster, cluster["Pod"][name].Volumes[i].SourceKind,
                 cluster["Pod"][name].Volumes[i].SourceName)
    /\ LET pod == cluster["Pod"][name]
           files == EnvFilesOf(pod)
       IN  cluster' = Put(cluster, "Pod", name,
                          [pod EXCEPT !.Phase = "Running",
                                      !.Placed = [k \in DOMAIN files |-> Destination(k)]])
    /\ UNCHANGED <<db, procs, ncalls, nfaults, last, nameIn, nameOut>>

----------------------------------------------------------------------------
(* SpecFiles: one build of a project whose file entries are drawn from      *)
(* bounded sets of keys, target paths and payloads, followed by step 3 of  *)
(* build.sh in the container of its Pod.                                   *)

PathChars == {"a", "/", "_"}

\* the path of the scenario of section 8: "android/app/g.json"
ScenarioPath ==
    <<"a", "n", "d", "r", "o", "i", "d", "/", "a", "p", "p", "/", "g", ".", "j", "s", "o", "n">>

Paths == UNION {[1..n -> PathChars] : n \in 0..MaxPathLen} \cup {ScenarioPath}

FileKeys == {<<"k">>, <<"g", "s">>}

ContentBytes == {0, 123, 125, 255}

Contents == UNION {[1..n -> ContentBytes] : n \in 0..MaxContentLen}

\* base64.StdEncoding.EncodeToString, by which the values of the entries with
\* IsBase64 are made
B64Char(i) ==
    IF i < 26 THEN 65 + i
    ELSE IF i < 52 THEN 71 + i
    ELSE IF i < 62 THEN i - 4
    ELSE IF i = 62 THEN 43
    ELSE 47

RECURSIVE B64Encode(_)
B64Encode(bytes) ==
    IF bytes = <<>> THEN <<>>
    ELSE IF Len(bytes) = 1
    THEN <<B64Char(bytes[1] \div 4), B64Char((bytes[1] % 4) * 16), 61, 61>>
    ELSE IF Len(bytes) = 2
    THEN <<B64Char(bytes[1] \div 4),
           B64Char((bytes[1] % 4) * 16 + bytes[2] \div 16),
           B64Char((bytes[2] % 16) * 4), 61>>
    ELSE <<B64Char(bytes[1] \div 4),
           B64Char((bytes[1] % 4) * 16 + bytes[2] \div 16),
           B64Char((bytes[2] % 16) * 4 + bytes[3] \div 64),
           B64Char(bytes[3] % 64)>> \o B64Encode(SubSeq(bytes, 4, Len(bytes)))

FileRow(key, path, value, isBase64) ==
    [ProjectID |-> ProjectOfBuilds.ID, Type |-> "file", Key |-> key,
     Value |-> value, Path |-> path, IsBase64 |-> isBase64]

\* an entry beside which the drawn one is stored: its data key is "k::a__"
FileRowBeside == FileRow(<<"k">>, <<"a", "/">>, <<66, 66>>, FALSE)

\* the drawn entries: every key and path with the payload of the scenario
\* ("e30=", base64 of "{}"), and every payload, encoded or verbatim, with a
\* key and path of their own; one payload is broken over two lines
DrawnFileRows ==
    {FileRow(key, path, <<101, 51, 48, 61>>, TRUE) : key \in FileKeys, path \in Paths}
    \cup {FileRow(<<"k">>, <<"a", "/", "a">>, B64Encode(content), TRUE) : content \in Contents}
    \cup {FileRow(<<"k">>, <<"a", "/", "a">>, content, FALSE) : content \in Contents}
    \cup {FileRow(<<"k">>, <<"a", "/", "a">>, <<101, 51, 10, 48, 61>>, TRUE),
          FileRow(<<"k">>, <<>>, <<101, 51, 48, 61>>, FALSE)}

\* the file entries of the project: the drawn entry alone, or stored before or
\* after FileRowBeside
DrawnFiles ==
    {<<row>> : row \in DrawnFileRows}
    \cup {<<row, FileRowBeside>> : row \in DrawnFileRows}
    \cup {<<FileRowBeside, row>> : row \in DrawnFileRows}

InitFiles ==
    /\ db \in {DataSource(files, KeystoresInactive) : files \in DrawnFiles}
    /\ cluster = EmptyCluster
    /\ procs = [p \in Procs |-> IdleProc]
    /\ ncalls = 0
    /\ nfaults = 0
    /\ last = NoSummary
    /\ nameIn = <<0, 0>>
    /\ nameOut = NoNames

NextFiles ==
    \/ \E p \in Callers, platform \in Platforms :
          ncalls = 0 /\ CreateBuildPod(p, Config(1, platform))
    \/ \E p \in Callers : StepCreatePVC(p)
    \/ \E p \in Callers : StepCreateConfigMap(p)
    \/ \E p \in Callers : StepCreateSecret(p)
    \/ \E p \in Callers : StepCreatePod(p)
    \/ \E p \in Callers : ProcessEnvFiles(PodNameCreate(procs[p].config.BuildID))

SpecFiles == InitFiles /\ [][NextFiles]_vars

----------------------------------------------------------------------------
(* The data key of an entry as section 4.2 states it, position by position: *)
(* character i of the path stands at i plus the number of "/" before it,   *)
(* as itself, or as two "_" when it is "/".                                *)

SlashesBefore(path, i) == Cardinality({j \in 1..(i - 1) : path[j] = "/"})

EncodedPathOf(path) ==
    [k \in 1..(Len(path) + SlashesBefore(path, Len(path) + 1)) |->
        LET i == CHOOSE i \in 1..Len(path) :
                    \/ k = i + SlashesBefore(path, i)
                    \/ path[i] = "/" /\ k = i + SlashesBefore(path, i) + 1
        IN  IF path[i] = "/" THEN "_" ELSE path[i]]

DataKeyOf(env) ==
    IF env.Path = <<>> THEN env.Key ELSE env.Key \o <<":", ":">> \o EncodedPathOf(env.Path)

\* the ConfigMap a CreateBuildPod invocation has created
ConfigMapOf(proc) == cluster["ConfigMap"][ConfigMapNameCreate(proc.config.BuildID)]

\* the Pod a CreateBuildPod invocation has created
PodOf(proc) == cluster["Pod"][PodNameCreate(proc.config.BuildID)]

\* build.sh has placed the environment files of the Pod of the invocation
FilesPlaced(proc) ==
    /\ Exists(cluster, "Pod", PodNameCreate(proc.config.BuildID))
    /\ PodOf(proc).Phase = "Running"

\* the data key of the scenario: "gs::android__app__g.json"
ScenarioKey ==
    <<"g", "s", ":", ":", "a", "n", "d", "r", "o", "i", "d", "_", "_", "a", "p", "p",
      "_", "_", "g", ".", "j", "s", "o", "n">>

\* C15: the data keys of the ConfigMap a CreateBuildPod creates are those of
\* the file entries of the project: for each entry, its Key when its Path is
\* empty, and otherwise Key, "::" and the Path with every "/" replaced by "__"
\* and every other character unchanged; Key "gs" with Path
\* "android/app/g.json" gives "gs::android__app__g.json".
C15_DataKeys ==
    \A p \in Starts :
        LET proc == procs[p]
            envs == FileEntries(proc.config)
        IN  Succeeded(proc, "create", "ConfigMap") =>
              /\ DOMAIN ConfigMapOf(proc).Data = {DataKeyOf(envs[i]) : i \in 1..Len(envs)}
              /\ \A i \in 1..Len(envs) :
                    (envs[i].Key = <<"g", "s">> /\ envs[i].Path = ScenarioPath) =>
                        ScenarioKey \in DOMAIN ConfigMapOf(proc).Data

\* the ConfigMap of the scenario: data key "gs::android__app__g.json", value "{}"
C15_Witness ==
    \E p \in Starts :
        /\ Succeeded(procs[p], "create", "ConfigMap")
        /\ ScenarioKey \in DOMAIN ConfigMapOf(procs[p]).Data
        /\ ConfigMapOf(procs[p]).Data[ScenarioKey] = <<123, 125>>

IsRelativePath(path) == path # <<>> /\ path[1] # "/"

\* C16: for every file entry with a relative target path, the destination at
\* which build.sh places the file of the entry (the text after "::" of its
\* data key, every "__" read as "/") is the target path of the entry.
C16_EncodingReversible ==
    \A p \in Starts :
        LET proc == procs[p]
            envs == FileEntries(proc.config)
        IN  FilesPlaced(proc) =>
              \A i \in 1..Len(envs) :
                  IsRelativePath(envs[i].Path) =>
                      PodOf(proc).Placed[DataKeyOf(envs[i])] = envs[i].Path

\* C17: for every file entry whose target path p holds a "/", encoding the
\* path build.sh decoded from the entry's data key gives the encoded path
\* again: encode(decode(encode(p))) = encode(p), encode being replaceAll of
\* "/" by "__" and decode the replacement of build.sh.
C17_EncodeDecodeEncode ==
    \A p \in Starts :
        LET proc == procs[p]
            envs == FileEntries(proc.config)
        IN  FilesPlaced(proc) =>
              \A i \in 1..Len(envs) :
                  InSeq("/", envs[i].Path) =>
                      replaceAll(PodOf(proc).Placed[DataKeyOf(envs[i])], "/", <<"_", "_">>)
                          = replaceAll(envs[i].Path, "/", <<"_", "_">>)

\* build.sh has decoded a path that is not the entry's ("_/a" comes back as
\* "/_a"), and encoding it gives the encoded path again
C17_Witness ==
    \E p \in Starts :
        /\ FilesPlaced(procs[p])
        /\ \E i \in 1..Len(FileEntries(procs[p].config)) :
              LET env == FileEntries(procs[p].config)[i]
                  placed == PodOf(procs[p]).Placed[DataKeyOf(env)]
              IN  /\ env.Path = <<"_", "/", "a">>
                  /\ placed = <<"/", "_", "a">>
                  /\ replaceAll(placed, "/", <<"_", "_">>) = <<"_", "_", "_", "a">>

\* the entry that wrote the data item of entry i: the last entry with its data key
WriterOf(envs, i) ==
    envs[CHOOSE j \in i..Len(envs) :
            /\ DataKeyOf(envs[j]) = DataKeyOf(envs[i])
            /\ \A l \in (j + 1)..Len(envs) : DataKeyOf(envs[l]) # DataKeyOf(envs[i])]

\* the value of the entry is the base64 encoding of content (line breaks aside)
EncodingOf(env, content) == StripNewlines(env.Value) = B64Encode(content)

\* C18: in the ConfigMap a CreateBuildPod creates, the data item of a file
\* entry is the content of which its Value is the base64 encoding when
\* IsBase64 is set, and its Value verbatim when IsBase64 is not set (the item
\* of an entry being the one the last entry with that data key wrote); and
\* when every IsBase64 entry holds a base64 encoding and no call or query
\* fails, the ConfigMap is created.
C18_DataValues ==
    \A p \in Starts :
        LET proc == procs[p]
            envs == FileEntries(proc.config)
        IN  /\ Succeeded(proc, "create", "ConfigMap") =>
                  \A i \in 1..Len(envs) :
                      LET env == WriterOf(envs, i)
                          value == ConfigMapOf(proc).Data[DataKeyOf(envs[i])]
                      IN  /\ env.IsBase64 =>
                                \A content \in Contents :
                                    EncodingOf(env, content) => value = content
                          /\ ~env.IsBase64 => value = env.Value
            /\ (/\ HasReturned(p)
                /\ Clean(proc)
                /\ AllCallsOk(proc)
                /\ Len(envs) > 0
                /\ FileQueryOk(proc)
                /\ \A i \in 1..Len(envs) :
                      envs[i].IsBase64 => \E content \in Contents : EncodingOf(envs[i], content))
                  => Succeeded(proc, "create", "ConfigMap")

\* an entry whose Value "/3s=" encodes the bytes 255, 123 has given them, beside
\* an entry stored verbatim
C18_Witness ==
    \E p \in Starts :
        /\ Succeeded(procs[p], "create", "ConfigMap")
        /\ \E i \in 1..Len(FileEntries(procs[p].config)) :
              LET env == FileEntries(procs[p].config)[i]
              IN  /\ env.IsBase64
                  /\ env.Value = <<47, 51, 115, 61>>
                  /\ ConfigMapOf(procs[p]).Data[DataKeyOf(env)] = <<255, 123>>
        /\ \E i \in 1..Len(FileEntries(procs[p].config)) :
              LET env == FileEntries(procs[p].config)[i]
              IN  /\ ~env.IsBase64
                  /\ ConfigMapOf(procs[p]).Data[DataKeyOf(env)] = env.Value

----------------------------------------------------------------------------
(* SpecEnv: one build whose BuildConfig is drawn from bounded sets of        *)
(* platforms, modes, targets, channels and Git settings.                   *)

EnvPlatforms == {"android", "ios", "web", "linux"}
BuildModes == {"", "release", "debug"}
BuildTargets == {"", "apk", "aab", "ios", "web"}
FlutterChannels == {"", "latest", "stable", "beta"}

EnvConfigs ==
    [Project : {ProjectOfBuilds}, Platform : EnvPlatforms, BuildID : {1},
     BuildMode : BuildModes, BuildTarget : BuildTargets, FlutterChannel : FlutterChannels,
     GitBranch : {"", "main"}, GitUsername : {"", "user"}, GitPassword : {"", "token"}]

InitEnv ==
    /\ db = DataSource(FilesNone, KeystoresValid)
    /\ cluster = EmptyCluster
    /\ procs = [p \in Procs |-> IdleProc]
    /\ ncalls = 0
    /\ nfaults = 0
    /\ last = NoSummary
    /\ nameIn = <<0, 0>>
    /\ nameOut = NoNames

NextEnv ==
    \/ \E p \in Callers, config \in EnvConfigs : ncalls = 0 /\ CreateBuildPod(p, config)
    \/ \E p \in Callers : StepCreatePVC(p)
    \/ \E p \in Callers : StepCreateConfigMap(p)
    \/ \E p \in Callers : StepCreateSecret(p)
    \/ \E p \in Callers : StepCreatePod(p)

SpecEnv == InitEnv /\ [][NextEnv]_vars

\* the values the variables called name have in the Pod
EnvValues(pod, name) ==
    {pod.Env[i].Value : i \in {j \in 1..Len(pod.Env) : pod.Env[j].Name = name}}

\* C20 as stated: the Pod of a build with Platform "ios" has BUILD_TARGET
\* "ios", whatever the BuildTarget of the BuildConfig.
C20_IosTargetRegardless ==
    \A p \in Starts :
        (procs[p].pod # NoObject /\ procs[p].config.Platform = "ios") =>
            EnvValues(procs[p].pod, "BUILD_TARGET") = {"ios"}

\* C20, amended: the Pod of a build with Platform "ios" has BUILD_TARGET "ios"
\* when the BuildTarget of the BuildConfig is empty, and has the BuildTarget
\* of the BuildConfig, unchanged, when it is not empty.
C20_IosTargetWhenNotGiven ==
    \A p \in Starts :
        (procs[p].pod # NoObject /\ procs[p].config.Platform = "ios") =>
            EnvValues(procs[p].pod, "BUILD_TARGET") =
                {IF procs[p].config.BuildTarget = "" THEN "ios"
                 ELSE procs[p].config.BuildTarget}

\* a build with Platform "ios" and no BuildTarget has created its Pod, with
\* BUILD_TARGET "ios"
C20_Witness ==
    \E p \in Starts :
        /\ procs[p].result = "nil"
        /\ procs[p].config.Platform = "ios"
        /\ procs[p].config.BuildTarget = ""
        /\ EnvValues(PodOf(procs[p]), "BUILD_TARGET") = {"ios"}


\* the value of the only variable called name in the Pod ("?" when there is
\* none or more than one)
EnvValue(pod, name) ==
    IF Cardinality({i \in 1..Len(pod.Env) : pod.Env[i].Name = name}) = 1
    THEN pod.Env[CHOOSE i \in 1..Len(pod.Env) : pod.Env[i].Name = name].Value
    ELSE "?"

\* C21: in the Pod of a build, BUILD_TARGET is the BuildTarget of the
\* BuildConfig when that is not empty and is otherwise derived from the
\* platform (android: apk, ios: ios, web: web, any other: apk); BUILD_MODE is
\* "release" when BuildMode is empty and BuildMode, unchanged, otherwise.
C21_DerivedTargetAndMode ==
    \A p \in Starts :
        procs[p].pod # NoObject =>
            LET config == procs[p].config
                target == EnvValue(procs[p].pod, "BUILD_TARGET")
                mode == EnvValue(procs[p].pod, "BUILD_MODE")
            IN  /\ (config.BuildTarget = "" /\ config.Platform = "android") => target = "apk"
                /\ (config.BuildTarget = "" /\ config.Platform = "ios") => target = "ios"
                /\ (config.BuildTarget = "" /\ config.Platform = "web") => target = "web"
                /\ (config.BuildTarget = ""
                    /\ config.Platform \notin {"android", "ios", "web"}) => target = "apk"
                /\ config.BuildMode = "" => mode = "release"
                /\ config.BuildMode # "" => mode = config.BuildMode

\* a build on a platform other than android, ios and web, with no BuildTarget
\* and with BuildMode "debug", has created its Pod with BUILD_TARGET "apk" and
\* BUILD_MODE "debug"
C21_Witness ==
    \E p \in Starts :
        /\ procs[p].result = "nil"
        /\ procs[p].config.Platform = "linux"
        /\ procs[p].config.BuildTarget = ""
        /\ procs[p].config.BuildMode = "debug"
        /\ EnvValue(PodOf(procs[p]), "BUILD_TARGET") = "apk"
        /\ EnvValue(PodOf(procs[p]), "BUILD_MODE") = "debug"

\* the channel FLUTTER_CHANNEL is to have for the FlutterChannel of a BuildConfig
NormalChannel(channel) ==
    CASE channel = "" -> "stable"
      [] channel = "latest" -> "stable"
      [] OTHER -> channel

\* C22: in the Pod of a build, FLUTTER_CHANNEL is "stable" when FlutterChannel
\* is "" or "latest" and is FlutterChannel otherwise, and normalizing the
\* FLUTTER_CHANNEL of the Pod again gives the same channel.
C22_ChannelNormalizedOnce ==
    \A p \in Starts :
        procs[p].pod # NoObject =>
            LET channel == EnvValue(procs[p].pod, "FLUTTER_CHANNEL")
            IN  /\ channel = NormalChannel(procs[p].config.FlutterChannel)
                /\ getFlutterChannel(channel) = channel

\* a build with FlutterChannel "latest" has created its Pod, with
\* FLUTTER_CHANNEL "stable"
C22_Witness ==
    \E p \in Starts :
        /\ procs[p].result = "nil"
        /\ procs[p].config.FlutterChannel = "latest"
        /\ EnvValue(PodOf(procs[p]), "FLUTTER_CHANNEL") = "stable"

\* the names of the variables of the Pod, in order
EnvNames(pod) == [i \in 1..Len(pod.Env) |-> pod.Env[i].Name]

\* the nine variables every build has, in the order of the composer
FixedNames ==
    <<"GIT_REPO", "BUILD_FOLDER", "PLATFORM", "BUILD_ID", "BUILD_MODE", "BUILD_TARGET",
      "FLUTTER_CHANNEL", "OUTPUT_DIR", "ENV_FILES_DIR">>

\* how many variables of the Pod are called name
Occurrences(pod, name) == Cardinality({i \in 1..Len(pod.Env) : pod.Env[i].Name = name})

\* the variable called name is in the Pod, once and with this value, exactly
\* when the value is not empty
OptionalVar(pod, name, value) ==
    IF value # "" THEN EnvValue(pod, name) = value ELSE Occurrences(pod, name) = 0

\* C23: the variables of the Pod of a build start with the nine fixed
\* variables, in the order of the composer, each of them once, with OUTPUT_DIR
\* "/outputs" and ENV_FILES_DIR "/env-files"; GIT_BRANCH, GIT_USERNAME and
\* GIT_PASSWORD are among the variables exactly when the field of the
\* BuildConfig is not empty.
C23_FixedAndOptionalVariables ==
    \A p \in Starts :
        procs[p].pod # NoObject =>
            LET pod == procs[p].pod
                config == procs[p].config
            IN  /\ Len(pod.Env) >= Len(FixedNames)
                /\ SubSeq(EnvNames(pod), 1, Len(FixedNames)) = FixedNames
                /\ \A i \in 1..Len(FixedNames) : Occurrences(pod, FixedNames[i]) = 1
                /\ pod.Env[8].Value = "/outputs"
                /\ pod.Env[9].Value = "/env-files"
                /\ OptionalVar(pod, "GIT_BRANCH", config.GitBranch)
                /\ OptionalVar(pod, "GIT_USERNAME", config.GitUsername)
                /\ OptionalVar(pod, "GIT_PASSWORD", config.GitPassword)

\* a build with a GitUsername, and with neither GitBranch nor GitPassword, has
\* created its Pod: GIT_USERNAME follows the nine fixed variables, and neither
\* GIT_BRANCH nor GIT_PASSWORD is among the variables
C23_Witness ==
    \E p \in Starts :
        /\ procs[p].result = "nil"
        /\ procs[p].config.GitBranch = ""
        /\ procs[p].config.GitUsername = "user"
        /\ procs[p].config.GitPassword = ""
        /\ EnvNames(PodOf(procs[p]))[10] = "GIT_USERNAME"
        /\ Occurrences(PodOf(procs[p]), "GIT_BRANCH") = 0
        /\ Occurrences(PodOf(procs[p]), "GIT_PASSWORD") = 0

----------------------------------------------------------------------------
(* SpecStored: one build of a project whose stored variable rows are drawn  *)
(* from names that repeat a fixed variable or not, in every order.         *)

MaxStored == 2

StoredRow(project, name, value) ==
    [ProjectID |-> project, Type |-> "env", Key |-> name, Value |-> value,
     Path |-> <<>>, IsBase64 |-> FALSE]

StoredNames == {"API_URL", "BUILD_MODE", "PLATFORM"}
StoredValues == {"debug", "ios"}

StoredRows == {StoredRow(1, name, value) : name \in StoredNames, value \in StoredValues}

\* the variable rows of the project, in table order: up to MaxStored rows
StoredSeqs == UNION {[1..n -> StoredRows] : n \in 0..MaxStored}

\* a data source with these variable rows of the project among the rows of
\* another project and a file row
StoredSource(rows, ks) ==
    [init |-> TRUE,
     envs |-> <<StoredRow(2, "BUILD_MODE", "other")>> \o rows \o <<FileRowRaw>>,
     keystores |-> ks]

StoredSources == {StoredSource(rows, ks) : rows \in StoredSeqs, ks \in {<<>>, KeystoresValid}}

StoredConfigs ==
    {config \in EnvConfigs :
        /\ config.Platform = "android"
        /\ config.BuildMode = ""
        /\ config.BuildTarget = ""
        /\ config.FlutterChannel = ""}

InitStored ==
    /\ db \in StoredSources
    /\ cluster = EmptyCluster
    /\ procs = [p \in Procs |-> IdleProc]
    /\ ncalls = 0
    /\ nfaults = 0
    /\ last = NoSummary
    /\ nameIn = <<0, 0>>
    /\ nameOut = NoNames

NextStored ==
    \/ \E p \in Callers, config \in StoredConfigs : ncalls = 0 /\ CreateBuildPod(p, config)
    \/ \E p \in Callers : StepCreatePVC(p)
    \/ \E p \in Callers : StepCreateConfigMap(p)
    \/ \E p \in Callers : StepCreateSecret(p)
    \/ \E p \in Callers : StepCreatePod(p)

SpecStored == InitStored /\ [][NextStored]_vars

\* the stored variable entries of the project: the rows of the data source
\* with its ID and Type "env", in the order of the table
StoredOf(projectID) ==
    LET at == {i \in 1..Len(db.envs) :
                  db.envs[i].ProjectID = projectID /\ db.envs[i].Type = "env"}
        nth[k \in 0..Len(db.envs)] ==
            IF k = 0 THEN 0 ELSE CHOOSE i \in at : i > nth[k - 1] /\ \A j \in at : j > nth[k - 1] => i <= j
    IN  [k \in 1..Cardinality(at) |-> db.envs[nth[k]]]

\* how many of GitBranch, GitUsername and GitPassword the BuildConfig gives
GitFields(config) ==
    (IF config.GitBranch # "" THEN 1 ELSE 0) + (IF config.GitUsername # "" THEN 1 ELSE 0)
    + (IF config.GitPassword # "" THEN 1 ELSE 0)

\* the place of the last variable of the Pod called name
LastOf(pod, name) ==
    CHOOSE i \in 1..Len(pod.Env) :
        /\ pod.Env[i].Name = name
        /\ \A j \in 1..Len(pod.Env) : pod.Env[j].Name = name => j <= i

\* C24: in the Pod of a build (the query of the stored variables not having
\* failed), the stored variable entries of the project follow the variables
\* of the composer, one variable per entry with its name and value, in query
\* order and without deduplication: when the name of a stored entry is the
\* name of a fixed variable both are among the variables, and the last
\* variable of that name is the last stored entry of that name.
C24_StoredVariablesAppended ==
    \A p \in Starts :
        (procs[p].pod # NoObject /\ InSeq(Query("env", "ok"), procs[p].queries)) =>
            LET pod == procs[p].pod
                stored == StoredOf(procs[p].config.Project.ID)
                base == Len(FixedNames) + GitFields(procs[p].config)
            IN  /\ Len(pod.Env) >= base + Len(stored)
                /\ \A i \in 1..Len(stored) :
                      pod.Env[base + i] =
                          [Name |-> stored[i].Key, Value |-> stored[i].Value,
                           SecretName |-> "", SecretKey |-> ""]
                /\ \A i \in 1..Len(stored), k \in 1..Len(FixedNames) :
                      stored[i].Key = FixedNames[k] =>
                          /\ pod.Env[k].Name = FixedNames[k]
                          /\ Occurrences(pod, FixedNames[k]) >= 2
                          /\ LastOf(pod, FixedNames[k]) > base
                          /\ LastOf(pod, FixedNames[k]) <= base + Len(stored)
                          /\ (\A j \in (i + 1)..Len(stored) : stored[j].Key # stored[i].Key)
                             => LastOf(pod, FixedNames[k]) = base + i

\* a build with no BuildMode, of a project with the stored entries
\* BUILD_MODE=debug and PLATFORM=ios, has created its Pod: BUILD_MODE is among
\* its variables as "release" from the composer and, later, as "debug"
C24_Witness ==
    \E p \in Starts :
        /\ procs[p].result = "nil"
        /\ StoredOf(procs[p].config.Project.ID)
              = <<StoredRow(1, "BUILD_MODE", "debug"), StoredRow(1, "PLATFORM", "ios")>>
        /\ PodOf(procs[p]).Env[5] = EnvVar("BUILD_MODE", "release")
        /\ Occurrences(PodOf(procs[p]), "BUILD_MODE") = 2
        /\ PodOf(procs[p]).Env[LastOf(PodOf(procs[p]), "BUILD_MODE")].Value = "debug"

\* the step an error of CreateBuildPod names, by the message it starts with
StepOfError(result) ==
    CASE result = "failed to get in-cluster config" -> "config"
      [] result = "failed to create clientset" -> "clientset"
      [] result = "failed to create PVC" -> "pvc"
      [] result = "failed to create ConfigMap" -> "configmap"
      [] result = "failed to create Secret" -> "secret"
      [] result = "failed to create pod" -> "pod"
      [] OTHER -> "none"

\* the step that creates the objects of a kind
StepOfKind(kind) ==
    CASE kind = "PersistentVolumeClaim" -> "pvc"
      [] kind = "ConfigMap" -> "configmap"
      [] kind = "Secret" -> "secret"
      [] kind = "Pod" -> "pod"

\* C25: every error CreateBuildPod returns names the step that failed: the
\* resolution of the cluster configuration, the creation of the clientset,
\* the PVC, the ConfigMap, the Secret or the Pod, each by a message of its
\* own; when a Create call failed, that is the step of the kind of the call.
C25_ErrorNamesFailedStep ==
    \A p \in Starts :
        (HasReturned(p) /\ IsError(procs[p].result)) =>
            LET proc == procs[p]
            IN  /\ proc.failed # ""
                /\ StepOfError(proc.result) = proc.failed
                /\ (proc.calls # <<>> /\ proc.calls[Len(proc.calls)].result # "ok") =>
                       StepOfError(proc.result) = StepOfKind(proc.calls[Len(proc.calls)].kind)

\* a build has returned the error of the ConfigMap step, which failed before
\* any Create of a ConfigMap
C25_Witness ==
    \E p \in Starts :
        /\ HasReturned(p)
        /\ procs[p].failed = "configmap"
        /\ procs[p].result = "failed to create ConfigMap"
        /\ "ConfigMap" \notin {procs[p].calls[i].kind : i \in 1..Len(procs[p].calls)}

----------------------------------------------------------------------------
(* pod.go: GetPodStatus, and the phases the cluster takes a Pod through    *)

\* v1.PodPhase
PodPhases == {"Pending", "Running", "Succeeded", "Failed", "Unknown"}

\* the phases a Pod of RestartPolicy Never can take next
NextPhases(phase) ==
    CASE phase = "Pending" -> {"Running", "Failed", "Unknown"}
      [] phase = "Running" -> {"Succeeded", "Failed", "Unknown"}
      [] phase = "Unknown" -> {"Running", "Failed"}
      [] OTHER -> {}

\* the cluster moves Pod name to its next phase
PodPhaseChange(name) ==
    /\ Exists(cluster, "Pod", name)
    /\ \E phase \in NextPhases(cluster["Pod"][name].Phase) :
          cluster' = Put(cluster, "Pod", name, [cluster["Pod"][name] EXCEPT !.Phase = phase])
    /\ UNCHANGED <<db, procs, ncalls, nfaults, last, nameIn, nameOut>>

\* the outcomes of a Get: the object, or not found, or a failure of the call
GetOutcomes(kind, name) ==
    (IF Exists(cluster, kind, name) THEN {"ok"} ELSE {"notfound"})
    \cup (IF FaultLeft THEN {"fail"} ELSE {})

\* GetPod that returns the phase a Pod has when it is created
GetPodAtCreation(c, buildID, r) ==
    LET podName == PodNameStatus(buildID)
        call == Call("get", "Pod", podName, r)
    IN  IF r # "ok"
        THEN [status |-> "", err |-> "failed to get pod", cluster |-> c, calls |-> <<call>>]
        ELSE [status |-> "Pending", err |-> "nil", cluster |-> c, calls |-> <<call>>]

\* lines 336-344: Get the Pod and return its phase
GetPod(c, buildID, r) ==
    LET podName == PodNameStatus(buildID)
        call == Call("get", "Pod", podName, r)
    IN  IF r # "ok"
        THEN [status |-> "", err |-> "failed to get pod", cluster |-> c, calls |-> <<call>>]
        ELSE [status |-> c["Pod"][podName].Phase, err |-> "nil", cluster |-> c,
              calls |-> <<call>>]

\* lines 325-345
GetPodStatus(p, buildID) ==
    /\ ~Active(procs[p])
    /\ \E outcome \in {"ok"} \cup (IF FaultLeft THEN {"noconfig", "noclientset"} ELSE {}) :
       \E r \in GetOutcomes("Pod", PodNameStatus(buildID)) :
          LET fresh == NewProc(p, "status", Config(buildID, ""))
              ret == GetPod(cluster, buildID, r)
          IN  CASE outcome = "noconfig" ->
                     /\ nfaults' = nfaults + 1
                     /\ cluster' = cluster
                     /\ Begin(p, [fresh EXCEPT !.pc = "done", !.failed = "config",
                                               !.result = "failed to get in-cluster config"])
                [] outcome = "noclientset" ->
                     /\ nfaults' = nfaults + 1
                     /\ cluster' = cluster
                     /\ Begin(p, [fresh EXCEPT !.pc = "done", !.failed = "clientset",
                                               !.result = "failed to create clientset"])
                [] outcome = "ok" ->
                     /\ nfaults' = nfaults + FaultsOf("ok", r)
                     /\ cluster' = ret.cluster
                     /\ Begin(p, [fresh EXCEPT !.pc = "done", !.calls = ret.calls,
                                               !.failed = IF ret.err # "nil" THEN "get" ELSE "",
                                               !.result = ret.err, !.status = ret.status])
    /\ UNCHANGED <<db, ncalls, nameIn, nameOut>>

----------------------------------------------------------------------------
(* SpecStatus: one build and one cleanup of it, the Pod going through its  *)
(* phases, and status queries of the build and of a build never started.   *)

Pollers == Procs \ Callers
StatusBuildIDs == {1, 2}

NextStatus ==
    \/ \E p \in Callers : ncalls = 0 /\ CreateBuildPod(p, Config(1, "android"))
    \/ \E p \in Callers : StepCreatePVC(p)
    \/ \E p \in Callers : StepCreateConfigMap(p)
    \/ \E p \in Callers : StepCreateSecret(p)
    \/ \E p \in Callers : StepCreatePod(p)
    \/ \E p \in Callers : ncalls = 1 /\ DeleteBuildResources(p, 1)
    \/ \E p \in Callers : StepDeletePod(p)
    \/ \E p \in Callers : StepDeleteConfigMap(p)
    \/ \E p \in Callers : StepDeleteSecret(p)
    \/ \E p \in Callers : StepDeletePVC(p)
    \/ PodPhaseChange(PodNameCreate(1))
    \/ \E p \in Pollers, id \in StatusBuildIDs : GetPodStatus(p, id)

SpecStatus == InitEnv /\ [][NextStatus]_vars

\* the status query of slot p has just returned
StatusReturned(p) ==
    /\ procs'[p].op = "status"
    /\ procs'[p].pc = "done"
    /\ procs'[p] # procs[p]

\* no step of the query failed other than by the Pod not being found
StatusUnfailed(proc) ==
    /\ proc.failed \notin {"config", "clientset"}
    /\ \A i \in 1..Len(proc.calls) : proc.calls[i].result # "fail"

\* C26: GetPodStatus leaves the cluster as it is; when the Pod build-<id>
\* exists (and no step of the query fails) it returns no error and the phase
\* the Pod has at that moment, one of Pending, Running, Succeeded, Failed and
\* Unknown; it returns no status without that Pod; and when the Pod is not
\* found it returns an error or "Unknown".
C26_StatusReadsCurrentPhase ==
    [][\A p \in Procs :
          StatusReturned(p) =>
              LET proc == procs'[p]
                  name == PodNameCreate(proc.config.BuildID)
              IN  /\ cluster' = cluster
                  /\ (Exists(cluster, "Pod", name) /\ StatusUnfailed(proc)) =>
                        /\ proc.result = "nil"
                        /\ proc.status = cluster["Pod"][name].Phase
                        /\ proc.status \in PodPhases
                  /\ proc.result = "nil" => Exists(cluster, "Pod", name)
                  /\ ~Exists(cluster, "Pod", name) =>
                        (IsError(proc.result) \/ proc.status = "Unknown")]_vars

\* a status query of the build has returned "Succeeded", the phase its Pod
\* has, after the Pod was created as Pending
C26_Witness ==
    \E p \in Pollers :
        /\ procs[p].op = "status"
        /\ procs[p].result = "nil"
        /\ procs[p].status = "Succeeded"
        /\ Exists(cluster, "Pod", PodNameCreate(procs[p].config.BuildID))
        /\ PodOf(procs[p]).Phase = "Succeeded"

----------------------------------------------------------------------------
(* pod.go: the log connection of a Pod (req.Stream, logStream.Read) and    *)
(* StreamPodLogs with the consumer of its channel                          *)

LogBytes == {65, 66}

\* the bytes a log connection can deliver before it ends
LogContents == UNION {[1..n -> LogBytes] : n \in 0..MaxLogLen}

MinOf(a, b) == IF a < b THEN a ELSE b

\* the outcomes of req.Stream: the connection, or an error when the Pod is
\* not found, its container has not started, or the call fails
StreamOutcomes(name) ==
    (IF ~Exists(cluster, "Pod", name) THEN {"notfound"}
     ELSE IF cluster["Pod"][name].Phase = "Pending" THEN {"waiting"}
     ELSE {"ok"})
    \cup (IF FaultLeft THEN {"fail"} ELSE {})

\* the outcomes of logStream.Read(buf): n bytes of those pending, at least
\* one and at most the buffer, and no error; or the last pending bytes (none
\* when none is pending) and io.EOF; or some bytes and an error of the
\* connection
ReadOutcomes(stream) ==
    LET most == MinOf(LogBufSize, Len(stream.pending))
    IN  {[n |-> n, err |-> "nil"] : n \in 1..most}
        \cup (IF Len(stream.pending) <= LogBufSize
              THEN {[n |-> Len(stream.pending), err |-> "EOF"]} ELSE {})
        \cup (IF FaultLeft THEN {[n |-> n, err |-> "reset"] : n \in 0..most} ELSE {})

\* the connection after a Read that returned n bytes
AfterRead(stream, n) ==
    [stream EXCEPT !.pending = SubSeq(@, n + 1, Len(@)),
                   !.delivered = @ \o SubSeq(stream.pending, 1, n)]

\* buf[:n] after the Read that returned n bytes from the connection
Chunk(stream, n) == SubSeq(stream.delivered, Len(stream.delivered) - n + 1, Len(stream.delivered))

\* the capacities of the channel the caller makes
ChanCaps == {0, 1}

\* make(chan string, cap)
MakeChan(cap) == [NoChan EXCEPT !.cap = cap]

Producers == Callers
Consumers == Procs \ Callers

\* lines 286-295: resolve the cluster configuration and the clientset
StreamPodLogs(p, buildID, cap) ==
    /\ ~Active(procs[p])
    /\ ncalls < MaxCalls
    /\ ncalls' = ncalls + 1
    /\ \E outcome \in {"ok"} \cup (IF FaultLeft THEN {"noconfig", "noclientset"} ELSE {}) :
          /\ nfaults' = IF outcome = "ok" THEN nfaults ELSE nfaults + 1
          /\ LET fresh == [NewProc(p, "stream", Config(buildID, ""))
                              EXCEPT !.logChan = MakeChan(cap)]
             IN  Begin(p, CASE outcome = "ok" -> [fresh EXCEPT !.pc = "open"]
                            [] outcome = "noconfig" ->
                                 [fresh EXCEPT !.pc = "done", !.failed = "config",
                                               !.result = "failed to get in-cluster config"]
                            [] outcome = "noclientset" ->
                                 [fresh EXCEPT !.pc = "done", !.failed = "clientset",
                                               !.result = "failed to create clientset"])
    /\ UNCHANGED <<db, cluster, nameIn, nameOut>>

\* lines 297-307: open the connection, following the log
StepStreamOpen(p) ==
    /\ procs[p].op = "stream"
    /\ procs[p].pc = "open"
    /\ LET proc == procs[p]
           podName == PodNameStream(proc.config.BuildID)
       IN  \E r \in StreamOutcomes(podName), content \in LogContents :
             LET call == Call("stream", "Pod", podName, r)
             IN  /\ nfaults' = nfaults + FaultsOf("ok", r)
                 /\ IF r # "ok"
                    THEN /\ content = <<>>
                         /\ Advance(p, [proc EXCEPT !.calls = @ \o <<call>>, !.pc = "done",
                                                    !.failed = "open",
                                                    !.result = "failed to get log stream"])
                    ELSE Advance(p, [proc EXCEPT !.calls = @ \o <<call>>, !.pc = "read",
                                                 !.logStream = [pending |-> content,
                                                                delivered |-> <<>>,
                                                                open |-> TRUE]])
    /\ UNCHANGED <<db, cluster, ncalls, nameIn, nameOut>>

\* AfterStreamRead that sends whatever the Read returned, bytes or none
AfterStreamReadSendingAlways(n, err) == "send"

\* where the loop of lines 310-319 goes after a Read: to the send when bytes
\* were read, else to the close on an error, else to the next Read
AfterStreamRead(n, err) ==
    IF n > 0 THEN "send" ELSE IF err # "nil" THEN "close" ELSE "read"

\* line 311: n, err := logStream.Read(buf)
StepStreamRead(p) ==
    /\ procs[p].op = "stream"
    /\ procs[p].pc = "read"
    /\ LET proc == procs[p]
       IN  \E o \in ReadOutcomes(proc.logStream) :
             /\ nfaults' = nfaults + FaultsOf("ok", IF o.err = "reset" THEN "fail" ELSE "ok")
             /\ Advance(p, [proc EXCEPT !.n = o.n, !.err = o.err,
                                        !.logStream = AfterRead(@, o.n),
                                        !.pc = AfterStreamRead(o.n, o.err)])
    /\ UNCHANGED <<db, cluster, ncalls, nameIn, nameOut>>

\* AfterStreamSend that leaves the loop after the first chunk
AfterStreamSendOnce(err) == "close"

\* where the loop goes after the send: to the close on an error of the Read
AfterStreamSend(err) == IF err # "nil" THEN "close" ELSE "read"

\* line 313: logChan <- string(buf[:n]), which waits for room in the channel
\* or, when the channel has none, for a consumer at its receive
StepStreamSend(p) ==
    /\ procs[p].op = "stream"
    /\ procs[p].pc = "send"
    /\ LET proc == procs[p]
           chunk == Chunk(proc.logStream, proc.n)
       IN  \/ /\ Len(proc.logChan.buf) < proc.logChan.cap
              /\ procs' = [procs EXCEPT ![p] = [proc EXCEPT !.logChan.buf = Append(@, chunk),
                                                            !.pc = AfterStreamSend(proc.err)]]
           \/ /\ proc.logChan.buf = <<>>
              /\ \E c \in Consumers :
                    /\ procs[c].pc = "range"
                    /\ procs' = [procs EXCEPT ![p] = [proc EXCEPT
                                                         !.pc = AfterStreamSend(proc.err)],
                                              ![c] = [procs[c] EXCEPT !.logs = Append(@, chunk)]]
    /\ UNCHANGED <<db, cluster, ncalls, nfaults, last, nameIn, nameOut>>

\* StepStreamClose that breaks out of the loop and returns without close(logChan)
StepStreamCloseLeavingOpen(p) ==
    /\ procs[p].op = "stream"
    /\ procs[p].pc = "close"
    /\ Advance(p, [procs[p] EXCEPT !.logStream.open = FALSE,
                                   !.pc = "done", !.result = "nil"])
    /\ UNCHANGED <<db, cluster, ncalls, nfaults, nameIn, nameOut>>

\* lines 315-321: close(logChan), break, and return nil; the deferred
\* logStream.Close() of line 307 ends the connection
StepStreamClose(p) ==
    /\ procs[p].op = "stream"
    /\ procs[p].pc = "close"
    /\ Advance(p, [procs[p] EXCEPT !.logChan.closed = TRUE, !.logChan.closes = @ + 1,
                                   !.logStream.open = FALSE,
                                   !.pc = "done", !.result = "nil"])
    /\ UNCHANGED <<db, cluster, ncalls, nfaults, nameIn, nameOut>>

\* the consumer of the channel of producer p starts: for log := range logChan
Range(c, p) ==
    /\ procs[c].op = "none"
    /\ procs[p].op = "stream"
    /\ Begin(c, [NewProc(c, "range", procs[p].config) EXCEPT !.pc = "range"])
    /\ UNCHANGED <<db, cluster, ncalls, nfaults, nameIn, nameOut>>

\* the consumer receives the chunk at the head of the channel
Receive(c, p) ==
    /\ procs[c].pc = "range"
    /\ procs[p].op = "stream"
    /\ procs[p].logChan.buf # <<>>
    /\ procs' = [procs EXCEPT ![c].logs = Append(@, Head(procs[p].logChan.buf)),
                              ![p].logChan.buf = Tail(@)]
    /\ UNCHANGED <<db, cluster, ncalls, nfaults, last, nameIn, nameOut>>

\* the range ends: the channel is closed and empty
RangeEnds(c, p) ==
    /\ procs[c].pc = "range"
    /\ procs[p].op = "stream"
    /\ procs[p].logChan.closed
    /\ procs[p].logChan.buf = <<>>
    /\ Advance(c, [procs[c] EXCEPT !.pc = "done", !.result = "nil"])
    /\ UNCHANGED <<db, cluster, ncalls, nfaults, nameIn, nameOut>>

\* the consumer leaves its loop before the channel is closed
StopsEarly(c) ==
    /\ procs[c].pc = "range"
    /\ Advance(c, [procs[c] EXCEPT !.pc = "done", !.result = "stopped"])
    /\ UNCHANGED <<db, cluster, ncalls, nfaults, nameIn, nameOut>>

----------------------------------------------------------------------------
(* SpecStream: one StreamPodLogs call on the Pod of a build of the web     *)
(* platform, and one consumer of its channel.                              *)

\* the cluster after a build of the web platform whose Pod has started
ClusterOfRunningBuild ==
    LET config == Config(1, "web")
        pvc == CreatePersistentVolumeClaimForArtifacts(EmptyCluster, config.BuildID, "ok")
        pod == SubmitPod(pvc.cluster, config, pvc.name, "", "", "ok", "ok")
        name == PodNameCreate(config.BuildID)
    IN  Put(pod.cluster, "Pod", name, [pod.cluster["Pod"][name] EXCEPT !.Phase = "Running"])

InitStream ==
    /\ db = DataSource(FilesNone, KeystoresValid)
    /\ cluster = ClusterOfRunningBuild
    /\ procs = [p \in Procs |-> IdleProc]
    /\ ncalls = 0
    /\ nfaults = 0
    /\ last = NoSummary
    /\ nameIn = <<0, 0>>
    /\ nameOut = NoNames

NextStream ==
    \/ \E p \in Producers, id \in StatusBuildIDs, cap \in ChanCaps :
          ncalls = 0 /\ StreamPodLogs(p, id, cap)
    \/ \E p \in Producers : StepStreamOpen(p)
    \/ \E p \in Producers : StepStreamRead(p)
    \/ \E p \in Producers : StepStreamSend(p)
    \/ \E p \in Producers : StepStreamClose(p)
    \/ \E c \in Consumers, p \in Producers : Range(c, p)
    \/ \E c \in Consumers, p \in Producers : Receive(c, p)
    \/ \E c \in Consumers, p \in Producers : RangeEnds(c, p)
    \/ \E c \in Consumers : StopsEarly(c)

SpecStream == InitStream /\ [][NextStream]_vars


\* the bytes of a sequence of chunks, in order
RECURSIVE Concat(_)
Concat(chunks) == IF chunks = <<>> THEN <<>> ELSE Head(chunks) \o Concat(Tail(chunks))

\* the chunks the consumers of the channel of producer p have received
ReceivedFrom(p) ==
    IF \E c \in Consumers : procs[c].op = "range"
    THEN procs[CHOOSE c \in Consumers : procs[c].op = "range"].logs
    ELSE <<>>

\* the chunk producer p has read and not sent yet
Unsent(p) ==
    IF procs[p].pc = "send"
    THEN <<SubSeq(procs[p].logStream.delivered,
                  Len(procs[p].logStream.delivered) - procs[p].n + 1,
                  Len(procs[p].logStream.delivered))>>
    ELSE <<>>

Streams == {p \in Procs : procs[p].op = "stream"}

\* C27: within a StreamPodLogs call, no chunk the consumer has received is
\* empty, and the bytes received, then those waiting in the channel, then
\* those read and not sent yet are, in this order, the bytes the connection
\* has delivered; once the producer has closed the channel and the consumer
\* has emptied it, the bytes received are the bytes the connection delivered.
C27_ChunksAreTheBytesRead ==
    \A p \in Streams :
        LET proc == procs[p]
            received == ReceivedFrom(p)
        IN  /\ \A i \in 1..Len(received) : received[i] # <<>>
            /\ \A i \in 1..Len(proc.logChan.buf) : proc.logChan.buf[i] # <<>>
            /\ Concat(received) \o Concat(proc.logChan.buf) \o Concat(Unsent(p))
                  = proc.logStream.delivered
            /\ (proc.logChan.closed /\ proc.logChan.buf = <<>>) =>
                  Concat(received) = proc.logStream.delivered

\* a consumer has received the bytes 65, 66, 65 of a connection in two
\* chunks, the connection having ended with an empty Read, and the channel
\* is closed
C27_Witness ==
    \E p \in Streams :
        /\ procs[p].logChan.closed
        /\ procs[p].n = 0
        /\ procs[p].err = "EOF"
        /\ procs[p].logStream.delivered = <<65, 66, 65>>
        /\ Len(ReceivedFrom(p)) = 2
        /\ Concat(ReceivedFrom(p)) = <<65, 66, 65>>


\* SpecStreamFair: SpecStream where the producer runs when it can (a Read
\* returns, with bytes, end of stream or an error), and the consumer starts
\* its range and takes what the channel holds.  A consumer may still stop
\* early.
SpecStreamFair ==
    /\ SpecStream
    /\ \A p \in Producers :
          /\ WF_vars(StepStreamOpen(p))
          /\ WF_vars(StepStreamRead(p))
          /\ WF_vars(StepStreamSend(p))
          /\ WF_vars(StepStreamClose(p))
    /\ \A c \in Consumers, p \in Producers :
          /\ WF_vars(Range(c, p))
          /\ WF_vars(Receive(c, p))
          /\ WF_vars(RangeEnds(c, p))

\* a consumer has left its loop before the channel was closed
ConsumerStopped == \E c \in Consumers : procs[c].result = "stopped"

\* the range of the consumer has ended by the close of the channel
ConsumerDone == \E c \in Consumers : procs[c].op = "range" /\ procs[c].result = "nil"

\* C28: a StreamPodLogs call closes the channel at most once, and only as it
\* returns, so that it sends nothing after the close; and once the log
\* connection is open (which then ends, by end of stream or an error), unless
\* the consumer stops receiving, the producer eventually has closed the
\* channel, once, and returned, and the range of the consumer has ended.
C28_StreamEndsAndCloses ==
    /\ [](\A p \in Streams :
             /\ procs[p].logChan.closes <= 1
             /\ procs[p].logChan.closed => procs[p].pc = "done")
    /\ [][\A p \in Streams :
             procs[p].logChan.closed =>
                 /\ procs'[p].logChan.closed
                 /\ Len(procs'[p].logChan.buf) <= Len(procs[p].logChan.buf)
                 /\ Len(ReceivedFrom(p)') + Len(procs'[p].logChan.buf)
                       = Len(ReceivedFrom(p)) + Len(procs[p].logChan.buf)]_vars
    /\ ((\E p \in Streams : procs[p].logStream.open)
           ~> (\/ ConsumerStopped
               \/ /\ \A p \in Streams :
                        /\ procs[p].pc = "done"
                        /\ procs[p].logChan.closed
                        /\ procs[p].logChan.closes = 1
                        /\ ~procs[p].logStream.open
                  /\ ConsumerDone))

\* the producer has returned after a connection that delivered bytes and
\* then failed, the channel is closed, once, and the range of the consumer,
\* which received the bytes, has ended
C28_Witness ==
    \E p \in Streams :
        /\ procs[p].pc = "done"
        /\ procs[p].err = "reset"
        /\ procs[p].logChan.closes = 1
        /\ procs[p].logStream.delivered # <<>>
        /\ Concat(ReceivedFrom(p)) = procs[p].logStream.delivered
        /\ ConsumerDone


\* the invocation has opened its log connection
Opened(proc) ==
    \E i \in 1..Len(proc.calls) : proc.calls[i].verb = "stream" /\ proc.calls[i].result = "ok"

\* C29: a StreamPodLogs call that has opened its log connection has left its
\* loop, or closed the channel, only when its last Read returned end of
\* stream or an error, whether or not the consumer has stopped receiving;
\* until then it is at a Read or at a send.
C29_LoopExitsOnReadErrorOnly ==
    \A p \in Streams :
        Opened(procs[p]) =>
            /\ (procs[p].pc \notin {"read", "send"} \/ procs[p].logChan.closed) =>
                   procs[p].err \in {"EOF", "reset"}
            /\ (ConsumerStopped /\ procs[p].err = "nil") =>
                   (procs[p].pc \in {"read", "send"} /\ ~procs[p].logChan.closed)

\* the consumer has stopped without taking the chunk that waits in the
\* channel, and the producer went on to the Read that returned end of stream,
\* closed the channel and returned
C29_Witness ==
    \E p \in Streams :
        /\ ConsumerStopped
        /\ procs[p].pc = "done"
        /\ procs[p].err = "EOF"
        /\ procs[p].logChan.closed
        /\ procs[p].logChan.buf # <<>>

----------------------------------------------------------------------------
(* pod.go: GetPodLogs *)

\* lines 250-259: resolve the cluster configuration and the clientset
GetPodLogs(p, buildID) ==
    /\ ~Active(procs[p])
    /\ ncalls < MaxCalls
    /\ ncalls' = ncalls + 1
    /\ \E outcome \in {"ok"} \cup (IF FaultLeft THEN {"noconfig", "noclientset"} ELSE {}) :
          /\ nfaults' = IF outcome = "ok" THEN nfaults ELSE nfaults + 1
          /\ LET fresh == NewProc(p, "logs", Config(buildID, ""))
             IN  Begin(p, CASE outcome = "ok" -> [fresh EXCEPT !.pc = "open"]
                            [] outcome = "noconfig" ->
                                 [fresh EXCEPT !.pc = "done", !.failed = "config",
                                               !.result = "failed to get in-cluster config"]
                            [] outcome = "noclientset" ->
                                 [fresh EXCEPT !.pc = "done", !.failed = "clientset",
                                               !.result = "failed to create clientset"])
    /\ UNCHANGED <<db, cluster, nameIn, nameOut>>

\* lines 261-269: open the connection to the log written so far
StepLogsOpen(p) ==
    /\ procs[p].op = "logs"
    /\ procs[p].pc = "open"
    /\ LET proc == procs[p]
           podName == PodNameLogs(proc.config.BuildID)
       IN  \E r \in StreamOutcomes(podName), content \in LogContents :
             LET call == Call("stream", "Pod", podName, r)
             IN  /\ nfaults' = nfaults + FaultsOf("ok", r)
                 /\ IF r # "ok"
                    THEN /\ content = <<>>
                         /\ Advance(p, [proc EXCEPT !.calls = @ \o <<call>>, !.pc = "done",
                                                    !.failed = "open",
                                                    !.result = "failed to get log stream"])
                    ELSE Advance(p, [proc EXCEPT !.calls = @ \o <<call>>, !.pc = "read",
                                                 !.logStream = [pending |-> content,
                                                                delivered |-> <<>>,
                                                                open |-> TRUE]])
    /\ UNCHANGED <<db, cluster, ncalls, nameIn, nameOut>>

\* LogsAfterRead that leaves the loop on an error before it looks at the bytes
LogsAfterReadErrorFirst(logs, chunk, n, err) ==
    IF err # "nil" THEN logs ELSE IF n > 0 THEN Append(logs, chunk) ELSE logs

\* lines 275-277: logs after a Read of n bytes
LogsAfterRead(logs, chunk, n, err) == IF n > 0 THEN Append(logs, chunk) ELSE logs

\* lines 273-283: one turn of the loop, and the return after the Read that
\* gave an error; the deferred logStream.Close() of line 269 ends the connection
StepLogsRead(p) ==
    /\ procs[p].op = "logs"
    /\ procs[p].pc = "read"
    /\ LET proc == procs[p]
       IN  \E o \in ReadOutcomes(proc.logStream) :
             LET stream == AfterRead(proc.logStream, o.n)
                 logs == LogsAfterRead(proc.logs, Chunk(stream, o.n), o.n, o.err)
             IN  /\ nfaults' = nfaults + FaultsOf("ok", IF o.err = "reset" THEN "fail" ELSE "ok")
                 /\ IF o.err # "nil"
                    THEN Advance(p, [proc EXCEPT !.n = o.n, !.err = o.err, !.logs = logs,
                                                 !.logStream = [stream EXCEPT !.open = FALSE],
                                                 !.pc = "done", !.result = "nil"])
                    ELSE Advance(p, [proc EXCEPT !.n = o.n, !.err = o.err, !.logs = logs,
                                                 !.logStream = stream])
    /\ UNCHANGED <<db, cluster, ncalls, nameIn, nameOut>>

----------------------------------------------------------------------------
(* SpecLogs: GetPodLogs calls on the Pod of a build and on a Pod that does *)
(* not exist.                                                              *)

NextLogs ==
    \/ \E p \in Callers, id \in StatusBuildIDs : GetPodLogs(p, id)
    \/ \E p \in Callers : StepLogsOpen(p)
    \/ \E p \in Callers : StepLogsRead(p)

SpecLogs == InitStream /\ [][NextLogs]_vars

LogReads == {p \in Procs : procs[p].op = "logs"}

\* C30: a GetPodLogs call that has opened its log connection collects the
\* bytes the connection delivers as they come: its chunks are not empty and
\* are together, in order, the bytes delivered so far; it goes on reading
\* while the Reads return no error, and has returned, with no error of its
\* own and with these chunks, as soon as a Read has returned end of stream
\* (all the bytes of the log then being delivered) or an error.
C30_LogsReadToEndOfStream ==
    \A p \in LogReads :
        Opened(procs[p]) =>
            LET proc == procs[p]
            IN  /\ \A i \in 1..Len(proc.logs) : proc.logs[i] # <<>>
                /\ Concat(proc.logs) = proc.logStream.delivered
                /\ proc.err = "nil" <=> proc.pc = "read"
                /\ proc.err # "nil" => (proc.pc = "done" /\ proc.result = "nil")
                /\ proc.err = "EOF" => proc.logStream.pending = <<>>

\* a GetPodLogs call has returned the bytes 65, 66, 66 in two chunks, the
\* last of which came with the end of stream
C30_Witness ==
    \E p \in LogReads :
        /\ procs[p].pc = "done"
        /\ procs[p].result = "nil"
        /\ procs[p].err = "EOF"
        /\ procs[p].n > 0
        /\ Len(procs[p].logs) = 2
        /\ Concat(procs[p].logs) = <<65, 66, 66>>


----------------------------------------------------------------------------
(* SpecConcurrent: CreateBuildPod and DeleteBuildResources invocations of  *)
(* the BuildIDs running in both slots at once, each cluster call one step, *)
(* so that the calls of two invocations interleave in every order.  The    *)
(* cluster and the data source answer every call: a Create fails on a      *)
(* conflict only, a Delete on a missing object only.                       *)

\* the builds that run at once
ConcurrentBuildIDs == {1, 2}

InitConcurrent ==
    /\ db = DataSource(FilesGood, KeystoresValid)
    /\ cluster = EmptyCluster
    /\ procs = [p \in Procs |-> IdleProc]
    /\ ncalls = 0
    /\ nfaults = MaxFaults
    /\ last = NoSummary
    /\ nameIn = <<0, 0>>
    /\ nameOut = NoNames

NextConcurrent ==
    \/ \E p \in Procs, id \in ConcurrentBuildIDs : CreateBuildPod(p, Config(id, "android"))
    \/ \E p \in Procs : StepCreatePVC(p)
    \/ \E p \in Procs : StepCreateConfigMap(p)
    \/ \E p \in Procs : StepCreateSecret(p)
    \/ \E p \in Procs : StepCreatePod(p)
    \/ \E p \in Procs, id \in ConcurrentBuildIDs : DeleteBuildResources(p, id)
    \/ \E p \in Procs : StepDeletePod(p)
    \/ \E p \in Procs : StepDeleteConfigMap(p)
    \/ \E p \in Procs : StepDeleteSecret(p)
    \/ \E p \in Procs : StepDeletePVC(p)

SpecConcurrent == InitConcurrent /\ [][NextConcurrent]_vars

\* the resources of BuildID y in cluster c, each with its content: the objects
\* under a name of y and the objects labelled build-id=y
ResourcesOf(c, y) ==
    UNION {{<<k, n, c[k][n]>> :
              n \in {m \in DOMAIN c[k] : \/ m = SchemeName(k, y)
                                         \/ c[k][m].Labels["build-id"] = ToString(y)}} :
           k \in Kinds}

\* the step is one of the invocation in slot p: the invocation starts or
\* moves on (a step of another slot changes at most the solo mark of p)
Acting(p) == [procs'[p] EXCEPT !.solo = TRUE] # [procs[p] EXCEPT !.solo = TRUE]

\* C31: builds with different BuildIDs are isolated under any interleaving:
\* every change of the cluster is made by a step of a CreateBuildPod or a
\* DeleteBuildResources invocation, and a step of an invocation for BuildID x
\* leaves the resources of every BuildID y different from x as they were:
\* none created, none modified, none deleted.
C31_BuildsIsolated ==
    [][/\ (cluster' # cluster) =>
              (\E p \in Procs : Acting(p) /\ procs'[p].op \in {"start", "delete"})
       /\ \A p \in Procs :
              Acting(p) =>
                  (\A y \in ConcurrentBuildIDs \ {procs'[p].config.BuildID} :
                       ResourcesOf(cluster', y) = ResourcesOf(cluster, y))]_vars

\* a CreateBuildPod for BuildID 1 has provisioned its four resources while a
\* DeleteBuildResources for BuildID 2 ran and deleted a resource of 2
C31_Witness ==
    \E p, q \in Procs :
        /\ procs[p].op = "start" /\ procs[p].config.BuildID = 1
        /\ procs[p].pc = "done" /\ procs[p].result = "nil" /\ ~procs[p].solo
        /\ procs[q].op = "delete" /\ procs[q].config.BuildID = 2
        /\ \E i \in 1..Len(procs[q].calls) : procs[q].calls[i].result = "ok"
        /\ Cardinality(ResourcesOf(cluster, 1)) = 4

----------------------------------------------------------------------------
(* The labels of the objects of a build *)

\* the labels a created object of the kind is expected to carry, for the app
\* label value app and the BuildConfig of the invocation that created it
ExpectedLabels(app, kind, config) ==
    IF kind = "Pod"
    THEN << <<"app", app>>, <<"build-id", ToString(config.BuildID)>>,
            <<"project-id", ToString(config.Project.ID)>>,
            <<"platform", config.Platform>> >>
    ELSE << <<"app", app>>, <<"build-id", ToString(config.BuildID)>> >>

\* the labels of an object as a set of <<key, value>> pairs
LabelPairs(obj) == {<<l, obj.Labels[l]>> : l \in DOMAIN obj.Labels}

\* every object a CreateBuildPod invocation has created carries the labels
\* expected of its kind, with app as the value of the app label
LabelledWith(app) ==
    \A p \in Callers :
        procs[p].op = "start" =>
            (\A i \in 1..Len(procs[p].calls) :
                 LET call == procs[p].calls[i]
                     want == ExpectedLabels(app, call.kind, procs[p].config)
                 IN  (call.verb = "create" /\ call.result = "ok") =>
                         (/\ Exists(cluster, call.kind, call.name)
                          /\ LabelPairs(cluster[call.kind][call.name])
                               = {want[j] : j \in 1..Len(want)}))

----------------------------------------------------------------------------
(* SpecSameBuild: CreateBuildPod invocations running in both slots at once, *)
(* with no DeleteBuildResources between them; a cluster call may fail.     *)

NextSameBuild ==
    \/ \E p \in Procs, id \in ConcurrentBuildIDs : CreateBuildPod(p, Config(id, "android"))
    \/ \E p \in Procs : StepCreatePVC(p)
    \/ \E p \in Procs : StepCreateConfigMap(p)
    \/ \E p \in Procs : StepCreateSecret(p)
    \/ \E p \in Procs : StepCreatePod(p)

SpecSameBuild == InitSecrecy /\ [][NextSameBuild]_vars

\* the invocation is a CreateBuildPod whose PVC Create met the conflict of a
\* name that exists
LostAtPVC(proc) ==
    /\ proc.op = "start"
    /\ \E i \in 1..Len(proc.calls) :
          /\ proc.calls[i].kind = "PersistentVolumeClaim"
          /\ proc.calls[i].result = "conflict"

StartSucceeded(proc) == proc.op = "start" /\ proc.pc = "done" /\ proc.result = "nil"

\* C33: of two CreateBuildPod invocations with the same BuildID, concurrent or
\* one after the other with no delete between them, at most one succeeds and
\* at most one creates the Pod; the invocation whose PVC Create meets the
\* conflict has returned the PVC error at that first step with this one call
\* issued and nothing created, and its step leaves the cluster, the
\* resources of the other invocation with it, as it was.
C33_SameBuildStartedOnce ==
    /\ [](\A p, q \in Procs :
             (/\ p # q
              /\ procs[p].op = "start" /\ procs[q].op = "start"
              /\ procs[p].config.BuildID = procs[q].config.BuildID) =>
                 (/\ ~(StartSucceeded(procs[p]) /\ StartSucceeded(procs[q]))
                  /\ ~(/\ Succeeded(procs[p], "create", "Pod")
                       /\ Succeeded(procs[q], "create", "Pod"))))
    /\ [](\A p \in Procs :
             LostAtPVC(procs[p]) =>
                 (/\ procs[p].pc = "done"
                  /\ procs[p].failed = "pvc"
                  /\ procs[p].result = "failed to create PVC"
                  /\ Len(procs[p].calls) = 1
                  /\ CreatedBy(procs[p]) = {}))
    /\ [][\A p \in Procs :
             (Acting(p) /\ LostAtPVC(procs'[p])) => cluster' = cluster]_vars

\* two invocations for one BuildID overlapped, one has provisioned the build
\* and the other has met the conflict at its PVC Create
C33_Witness ==
    \E p, q \in Procs :
        /\ p # q
        /\ procs[p].config.BuildID = procs[q].config.BuildID
        /\ StartSucceeded(procs[p]) /\ ~procs[p].solo
        /\ LostAtPVC(procs[q]) /\ procs[q].pc = "done"
        /\ \A k \in Kinds : Exists(cluster, k, SchemeName(k, procs[p].config.BuildID))

----------------------------------------------------------------------------
(* Retries of a failed build *)

\* the invocation summarised by s was a CreateBuildPod for BuildID x that
\* failed with the PVC of x in the cluster: it failed after it had created
\* the PVC, or its own PVC Create met the conflict of the name
LeftPVC(s, x) ==
    /\ s.op = "start" /\ s.id = x
    /\ s.result # "nil"
    /\ \/ s.changes >= 1
       \/ s.result = "failed to create PVC" /\ s.clean

\* the invocation summarised by s was a DeleteBuildResources for BuildID x
\* whose Delete calls all reached the cluster
DeletedAll(s, x) == s.op = "delete" /\ s.id = x /\ s.clean

\* C34: a CreateBuildPod for BuildID x that comes next after a CreateBuildPod
\* for x that failed at a step later than the PVC creation, or after a retry
\* that failed this way, fails at its first cluster call, the PVC Create: it
\* returns the PVC error with nothing created and the cluster as it was, on
\* a conflict whenever the cluster answered the call.  A CreateBuildPod for x
\* that comes next after a DeleteBuildResources for x whose deletes reached
\* the cluster does not meet a conflict at any step, and succeeds when the
\* cluster configuration resolves, the data source and the cluster answer
\* all its calls and the payloads decode.
C34_RetryBlockedUntilDelete ==
    \A p \in Callers :
        LET proc == procs[p]
            x == proc.config.BuildID
        IN  /\ (proc.op = "start" /\ proc.calls # <<>> /\ LeftPVC(proc.prev, x)) =>
                   (/\ proc.pc = "done"
                    /\ proc.failed = "pvc"
                    /\ proc.result = "failed to create PVC"
                    /\ Len(proc.calls) = 1
                    /\ proc.calls[1].kind = "PersistentVolumeClaim"
                    /\ proc.calls[1].result \in {"conflict", "fail"}
                    /\ (Clean(proc) => proc.calls[1].result = "conflict")
                    /\ cluster = proc.pre)
            /\ (proc.op = "start" /\ DeletedAll(proc.prev, x)) =>
                   (/\ \A i \in 1..Len(proc.calls) : proc.calls[i].result # "conflict"
                    /\ (/\ proc.pc = "done" /\ Clean(proc)
                        /\ proc.failed \notin {"config", "clientset"}
                        /\ db.init /\ ConfigMapData(FileEntries(proc.config)).ok
                        /\ (HasActiveKeystore(proc.config) /\ NeedsKeystore(proc.config)) =>
                               DecodeString(ActiveKeystores(proc.config.Project.ID)[1]
                                                .KeystoreFile).ok)
                           => proc.result = "nil")

\* a retry has met the conflict at its PVC Create after a CreateBuildPod for
\* the same BuildID that had created objects and failed
C34_Witness ==
    \E p \in Callers :
        /\ procs[p].op = "start" /\ procs[p].pc = "done"
        /\ procs[p].prev.op = "start" /\ procs[p].prev.id = procs[p].config.BuildID
        /\ procs[p].prev.result # "nil" /\ procs[p].prev.changes >= 1
        /\ procs[p].failed = "pvc"
        /\ procs[p].calls[1].result = "conflict"

\* a retry has succeeded after a DeleteBuildResources that removed the one
\* object, the PVC, a failed CreateBuildPod for the BuildID had left
RetrySucceededAfterDelete ==
    \E p \in Callers :
        /\ procs[p].op = "start" /\ procs[p].pc = "done" /\ procs[p].result = "nil"
        /\ DeletedAll(procs[p].prev, procs[p].config.BuildID)
        /\ procs[p].prev.changes = 1

----------------------------------------------------------------------------
(* A build deleted while it is started *)

\* the objects of BuildID x in cluster c, by kind and name
ObjectsOf(c, x) == {<<rs[1], rs[2]>> : rs \in ResourcesOf(c, x)}

\* C35: when a DeleteBuildResources for BuildID x has run together with a
\* CreateBuildPod for x, no other invocation has run and no cluster call has
\* failed for a reason other than not-found, then once both have returned
\* either the resources the CreateBuildPod provisioned all exist or no
\* resource of x exists: no Pod of x is left with its PVC, ConfigMap or
\* Secret deleted, and no other subset of the resources of x.
C35_AllOrNothing ==
    \A p, q \in Procs :
        (/\ ncalls = 2
         /\ procs[p].op = "start" /\ procs[p].pc = "done"
         /\ procs[q].op = "delete" /\ procs[q].pc = "done"
         /\ procs[q].config.BuildID = procs[p].config.BuildID
         /\ Clean(procs[p]) /\ Clean(procs[q])) =>
            LET x == procs[p].config.BuildID
            IN  /\ ObjectsOf(cluster, x) \in {{}, CreatedBy(procs[p])}
                /\ Exists(cluster, "Pod", SchemeName("Pod", x)) =>
                       \A k \in Kinds : Exists(cluster, k, SchemeName(k, x))

----------------------------------------------------------------------------
(* The channel at the return of StreamPodLogs *)

\* C36: whenever StreamPodLogs has returned, on any path, the failure to
\* resolve the cluster configuration and the failure to open the log stream
\* included, the log channel has been closed (so that the range of a consumer
\* over the channel ends).
C36_ChannelClosedOnEveryReturn ==
    \A p \in Streams : procs[p].pc = "done" => procs[p].logChan.closed

----------------------------------------------------------------------------
(* The producer when the consumer has stopped *)

\* the StreamPodLogs call of slot p is at its send with no room in the channel
\* and no receiver: the consumer has left its loop, and no other receives
BlockedAtSend(p) ==
    /\ procs[p].pc = "send"
    /\ Len(procs[p].logChan.buf) >= procs[p].logChan.cap
    /\ \A c \in Consumers : procs[c].pc = "done"

\* C37: when the consumer stops receiving while the source still delivers
\* data, StreamPodLogs still returns and closes the channel once the log
\* connection closes: the producer never stays blocked for ever on a send.
\* A send with no room in the channel and no receiver left never completes,
\* so the claim is that the call is never in that state.
C37_ProducerNeverBlockedForGood ==
    \A p \in Streams : ~BlockedAtSend(p)

\* no step takes a StreamPodLogs call out of BlockedAtSend: the state is final
BlockedAtSendIsFinal ==
    [][\A p \in Streams : BlockedAtSend(p) => (procs'[p] = procs[p] /\ BlockedAtSend(p)')]_vars

----------------------------------------------------------------------------
(* One data item per file entry *)

\* the (Key, Path) pairs of a sequence of file entries
KeyPathPairs(envs) == {<<envs[i].Key, envs[i].Path>> : i \in 1..Len(envs)}

\* C38: two file entries of a project with different (Key, TargetPath) pairs
\* never map to the same data key: the ConfigMap a build creates holds one
\* data item per distinct (Key, TargetPath) pair of the file entries, and the
\* item of every entry holds the content of an entry with that pair, so that
\* no entry's content is overwritten by another's.
C38_DistinctEntriesDistinctKeys ==
    \A p \in Starts :
        LET proc == procs[p]
            envs == FileEntries(proc.config)
        IN  Succeeded(proc, "create", "ConfigMap") =>
              /\ Cardinality(DOMAIN ConfigMapOf(proc).Data) = Cardinality(KeyPathPairs(envs))
              /\ \A i \in 1..Len(envs) :
                    LET writer == WriterOf(envs, i)
                    IN  <<writer.Key, writer.Path>> = <<envs[i].Key, envs[i].Path>>

----------------------------------------------------------------------------
(* Failures of the data source, step by step *)

\* the invocation saw the query of the type fail
QueryFailed(proc, type) ==
    \E i \in 1..Len(proc.queries) :
        proc.queries[i].type = type /\ proc.queries[i].result = "err"

NamesIn(envVars) == {envVars[i].Name : i \in 1..Len(envVars)}

VolumeNames(pod) == {pod.Volumes[i].Name : i \in 1..Len(pod.Volumes)}

\* C39: a CreateBuildPod that has returned after a failure of the file-entry
\* query has returned the ConfigMap error at that step, with no ConfigMap, no
\* Secret and no Pod created.  One that has returned after a failure of the
\* variable-entry query or of the active-keystore lookup was not aborted by
\* it: it has issued the Pod Create, and returns nil when the cluster accepts
\* it; the Pod it submitted carries no stored variable in the first case, and
\* in the second no Secret was created and the Pod has neither the keystore
\* volume nor the keystore variables (an android build is started unsigned).
C39_DataSourceFailuresPerStep ==
    \A p \in Starts :
        LET proc == procs[p]
            stored == FindEnvs(proc.config.Project.ID, "env")
        IN  HasReturned(p) =>
              /\ QueryFailed(proc, "file") =>
                    (/\ proc.failed = "configmap"
                     /\ proc.result = "failed to create ConfigMap"
                     /\ \A k \in {"ConfigMap", "Secret", "Pod"} : ~Issued(proc, "create", k))
              /\ QueryFailed(proc, "env") =>
                    (/\ Issued(proc, "create", "Pod")
                     /\ (AllCallsOk(proc) => proc.result = "nil")
                     /\ \A i \in 1..Len(stored) : stored[i].Key \notin NamesIn(proc.pod.Env))
              /\ QueryFailed(proc, "keystore") =>
                    (/\ proc.failed # "secret"
                     /\ ~Issued(proc, "create", "Secret")
                     /\ Issued(proc, "create", "Pod")
                     /\ (AllCallsOk(proc) => proc.result = "nil")
                     /\ "keystore" \notin VolumeNames(proc.pod)
                     /\ NamesIn(proc.pod.Env) \cap
                          {"KEYSTORE_PATH", "KEYSTORE_PASSWORD", "KEY_ALIAS", "KEY_PASSWORD"} = {})

\* an android build of a project with an active keystore has been started
\* unsigned after the keystore lookup failed
C39_Witness ==
    \E p \in Starts :
        /\ HasReturned(p) /\ procs[p].result = "nil"
        /\ procs[p].config.Platform = "android"
        /\ HasActiveKeystore(procs[p].config)
        /\ QueryFailed(procs[p], "keystore")
        /\ Exists(cluster, "Pod", PodNameCreate(procs[p].config.BuildID))
        /\ "keystore" \notin VolumeNames(PodOf(procs[p]))

----------------------------------------------------------------------------
(* The build test script: monitorPodStatus, the polling client of            *)
(* GetPodStatus.  Each tick of its ticker is one step: the GetPodStatus     *)
(* call, the report and the test of the phase.  The invocation keeps       *)
(* lastStatus (status), the error of its last poll (err), the statuses it  *)
(* has reported, the last MaxReported of them (reported), and the number   *)
(* of times it has fetched the logs of the Pod (fetched).                  *)

MaxReported == 3

TerminalPhases == {"Succeeded", "Failed"}

\* the cluster after a build of the web platform has been started
ClusterOfStartedBuild ==
    LET config == Config(1, "web")
        pvc == CreatePersistentVolumeClaimForArtifacts(EmptyCluster, config.BuildID, "ok")
    IN  SubmitPod(pvc.cluster, config, pvc.name, "", "", "ok", "ok").cluster

\* the last MaxReported statuses reported, after status is reported
Reported(reported, status) ==
    LET all == Append(reported, status)
    IN  IF Len(all) > MaxReported THEN Tail(all) ELSE all

\* monitorNext that leaves the loop on an error of GetPodStatus
monitorNextStoppingOnError(lastStatus, status, err) ==
    IF err # "nil" THEN "done"
    ELSE IF status # lastStatus /\ status \in {"Succeeded", "Failed"} THEN "logs"
    ELSE "tick"

\* where monitorPodStatus goes after a poll: to the next tick on an error
\* (continue, line 195) and on a status that is not new or not terminal, to
\* showPodLogs on a new status "Succeeded" or "Failed" (lines 204-217)
monitorNext(lastStatus, status, err) ==
    IF err # "nil" THEN "tick"
    ELSE IF status # lastStatus /\ status \in {"Succeeded", "Failed"} THEN "logs"
    ELSE "tick"

\* lines 182-187: the ticker is started and lastStatus is ""
monitorPodStatus(p, buildID) ==
    /\ procs[p].op = "none"
    /\ Begin(p, [NewProc(p, "monitor", Config(buildID, "")) EXCEPT !.pc = "tick"])
    /\ UNCHANGED <<db, cluster, ncalls, nfaults, nameIn, nameOut>>

\* lines 189-219: one tick, with the GetPodStatus call of line 192
MonitorTick(p) ==
    /\ procs[p].op = "monitor"
    /\ procs[p].pc = "tick"
    /\ LET proc == procs[p]
           buildID == proc.config.BuildID
       IN  \E outcome \in {"ok"} \cup (IF FaultLeft THEN {"noconfig", "noclientset"} ELSE {}) :
           \E r \in GetOutcomes("Pod", PodNameStatus(buildID)) :
             LET ret == GetPod(cluster, buildID, r)
                 err == CASE outcome = "noconfig" -> "failed to get in-cluster config"
                          [] outcome = "noclientset" -> "failed to create clientset"
                          [] OTHER -> ret.err
                 status == IF err = "nil" THEN ret.status ELSE ""
                 new == err = "nil" /\ status # proc.status
             IN  /\ outcome # "ok" => r # "fail"
                 /\ nfaults' = nfaults + (IF outcome # "ok" THEN 1 ELSE FaultsOf("ok", r))
                 /\ Advance(p, [proc EXCEPT
                                  !.err = err,
                                  !.status = IF new THEN status ELSE @,
                                  !.reported = IF new THEN Reported(@, status) ELSE @,
                                  !.pc = monitorNext(proc.status, status, err)])
    /\ UNCHANGED <<db, cluster, ncalls, nameIn, nameOut>>

\* lines 207-217: showPodLogs fetches the logs of the Pod, then the function
\* returns (Succeeded) or the process exits with status 1 (Failed)
MonitorShowPodLogs(p) ==
    /\ procs[p].op = "monitor"
    /\ procs[p].pc = "logs"
    /\ Advance(p, [procs[p] EXCEPT !.fetched = @ + 1,
                                   !.pc = "done",
                                   !.result = IF procs[p].status = "Succeeded"
                                              THEN "nil" ELSE "exit 1"])
    /\ UNCHANGED <<db, cluster, ncalls, nfaults, nameIn, nameOut>>

InitMonitor ==
    /\ db = DataSource(FilesNone, KeystoresValid)
    /\ cluster = ClusterOfStartedBuild
    /\ procs = [p \in Procs |-> IdleProc]
    /\ ncalls = 0
    /\ nfaults = 0
    /\ last = NoSummary
    /\ nameIn = <<0, 0>>
    /\ nameOut = NoNames

NextMonitor ==
    \/ \E p \in Pollers, id \in StatusBuildIDs : monitorPodStatus(p, id)
    \/ \E p \in Pollers : MonitorTick(p)
    \/ \E p \in Pollers : MonitorShowPodLogs(p)
    \/ PodPhaseChange(PodNameCreate(1))

SpecMonitor == InitMonitor /\ [][NextMonitor]_vars

\* the ticker fires every five seconds for as long as the loop runs, and
\* showPodLogs returns
SpecMonitorFair ==
    /\ SpecMonitor
    /\ \A p \in Pollers : WF_vars(MonitorTick(p))
    /\ \A p \in Pollers : WF_vars(MonitorShowPodLogs(p))

Monitors == {p \in Procs : procs[p].op = "monitor"}

\* the phase GetPodStatus reports for the Pod of the build, "" when the Pod
\* is not there
PhaseOf(buildID) ==
    IF Exists(cluster, "Pod", SchemeName("Pod", buildID))
    THEN cluster["Pod"][SchemeName("Pod", buildID)].Phase
    ELSE ""

=============================================================================
